---- MODULE Spec2Model ----
(***************************************************************************)
(* Quota engine, record store and URL handlers of smart_media_bot.py.      *)
(*                                                                         *)
(* Two specifications share the variables:                                 *)
(*   Spec        the bot: handlers run as cooperative tasks that suspend   *)
(*               at their awaits, over the process-wide UserManager.       *)
(*   EngineSpec  the UserManager object alone, its methods called in any   *)
(*               order by a caller.                                        *)
(***************************************************************************)
EXTENDS Integers, Sequences, FiniteSets, TLC

(***************************************************************************)
(* Bounds of the model.                                                    *)
(***************************************************************************)
MaxUsers == 2          \* distinct user identities
MaxTasks == 2          \* handler tasks in flight at once
MaxClock == 1          \* last instant of the wall clock
MaxRequests == 2       \* inbound URL messages in a run of Spec
MaxCalls == 3          \* subscribe, upgrade and increment calls in a run of EngineSpec
TicksPerDay == 1       \* instants of the wall clock per calendar date

(***************************************************************************)
(* BotConfig                                                               *)
(***************************************************************************)
MAX_FREE_DOWNLOADS == 3
MAX_FREE_SUMMARIES == 5
MAX_PREMIUM_DOWNLOADS == 100
MAX_PREMIUM_SUMMARIES == 50
FREE_MAX_FILE_SIZE == 50 * 1024 * 1024
PREMIUM_MAX_FILE_SIZE == 500 * 1024 * 1024
PremiumDays == 30      \* timedelta(days=30)

UserIds == 1..MaxUsers
Tasks == 1..MaxTasks

\* Python None in a timestamp or referral field
None == -1

\* str(user_id): the key of a record in the table
Str(user_id) == IF user_id = 1 THEN "1" ELSE IF user_id = 2 THEN "2" ELSE "3"

\* datetime.now().date().isoformat() at instant now
Date(now) == now \div TicksPerDay

VARIABLES
    users,      \* UserManager.users: the in-memory table, key -> record
    disk,       \* user_data.json: [state, table]
    clock,      \* datetime.now()
    tasks,      \* the handler tasks: position and what the request did so far
    requests,   \* inbound URL messages (Spec) / writing calls (EngineSpec) so far
    call        \* the last UserManager method called directly, and what it returned

vars == <<users, disk, clock, tasks, requests, call>>

(***************************************************************************)
(* Record store                                                            *)
(***************************************************************************)
\* the record get_user inserts for an unseen identity
NewRecord(now) ==
    [is_subscribed |-> FALSE,
     subscription_date |-> None,
     downloads_today |-> 0,
     summaries_today |-> 0,
     last_reset |-> Date(now),
     is_premium |-> FALSE,
     premium_expires |-> None,
     premium_started |-> None,
     total_downloads |-> 0,
     total_summaries |-> 0,
     referral_code |-> None,
     referred_by |-> None]

EmptyTable == [k \in {} |-> NewRecord(0)]

\* The store a method works on: st = [users, disk, ret]; ret is the value the
\* method returns.
Store(u, d) == [users |-> u, disk |-> d, ret |-> FALSE]

\* a loader that hands back whatever user_data.json held
load_user_data_unchecked(d) == d.table

\* load_user_data: a missing or unreadable file yields the empty table
load_user_data(d) == IF d.state = "ok" THEN d.table ELSE EmptyTable

\* save_user_data: open(file, "w") and json.dump of the whole table; an error is
\* logged and swallowed.  w is what the write does: "ok", "open_error" (the file
\* is not opened, it keeps its content) or "dump_error" (the file was truncated
\* by open and the dump did not complete).
save_user_data(st, w) ==
    IF w = "ok" THEN [st EXCEPT !.disk = [state |-> "ok", table |-> st.users]]
    ELSE IF w = "open_error" THEN st
    ELSE [st EXCEPT !.disk = [state |-> "corrupt", table |-> st.users]]

\* get_user that inserts a fresh record on every lookup
get_user_always_new(st, user_id, now) ==
    LET k == Str(user_id)
        u == [x \in DOMAIN st.users \cup {k} |->
                 IF x = k THEN NewRecord(now) ELSE st.users[x]]
    IN [st EXCEPT !.users = u, !.ret = u[k]]

get_user(st, user_id, now) ==
    LET k == Str(user_id) IN
    IF k \notin DOMAIN st.users
    THEN LET u == [x \in DOMAIN st.users \cup {k} |->
                      IF x = k THEN NewRecord(now) ELSE st.users[x]]
         IN [st EXCEPT !.users = u, !.ret = u[k]]
    ELSE [st EXCEPT !.ret = st.users[k]]

\* subscribe_user that keeps the date of the first subscription
subscribe_user_first_only(st, user_id, referral_code, now, w) ==
    LET k == Str(user_id)
        s1 == get_user(st, user_id, now)
        u == [s1.users EXCEPT ![k].is_subscribed = TRUE,
                              ![k].subscription_date =
                                  IF s1.users[k].is_subscribed THEN @ ELSE now,
                              ![k].referred_by =
                                  IF referral_code # None THEN referral_code ELSE @]
    IN [save_user_data([s1 EXCEPT !.users = u], w) EXCEPT !.ret = FALSE]

subscribe_user(st, user_id, referral_code, now, w) ==
    LET k == Str(user_id)
        s1 == get_user(st, user_id, now)
        u == [s1.users EXCEPT ![k].is_subscribed = TRUE,
                              ![k].subscription_date = now,
                              ![k].referred_by =
                                  IF referral_code # None THEN referral_code ELSE @]
    IN [save_user_data([s1 EXCEPT !.users = u], w) EXCEPT !.ret = FALSE]

\* upgrade_to_premium that rebuilds the record instead of updating it
upgrade_to_premium_fresh(st, user_id, now, w) ==
    LET k == Str(user_id)
        s1 == get_user(st, user_id, now)
        u == [s1.users EXCEPT ![k] = [NewRecord(now) EXCEPT
                                         !.is_subscribed = s1.users[k].is_subscribed,
                                         !.is_premium = TRUE,
                                         !.premium_started = now,
                                         !.premium_expires = now + PremiumDays * TicksPerDay]]
    IN [save_user_data([s1 EXCEPT !.users = u], w) EXCEPT !.ret = FALSE]

upgrade_to_premium(st, user_id, now, w) ==
    LET k == Str(user_id)
        s1 == get_user(st, user_id, now)
        u == [s1.users EXCEPT ![k].is_premium = TRUE,
                              ![k].premium_started = now,
                              ![k].premium_expires = now + PremiumDays * TicksPerDay]
    IN [save_user_data([s1 EXCEPT !.users = u], w) EXCEPT !.ret = FALSE]

is_subscribed(st, user_id, now) ==
    LET s1 == get_user(st, user_id, now)
    IN [s1 EXCEPT !.ret = s1.users[Str(user_id)].is_subscribed]

\* reset_daily_limits that forgets summaries_today
reset_daily_limits_keeps_summaries(st, user_id, now, w) ==
    LET k == Str(user_id)
        s1 == get_user(st, user_id, now)
        today == Date(now)
    IN IF s1.users[k].last_reset # today
       THEN [save_user_data(
                [s1 EXCEPT !.users = [s1.users EXCEPT ![k].downloads_today = 0,
                                                      ![k].last_reset = today]], w)
             EXCEPT !.ret = FALSE]
       ELSE [s1 EXCEPT !.ret = FALSE]

\* reset_daily_limits that clears the daily counters of every record
\* reset_daily_limits that ends a premium whose premium_expires has passed
reset_daily_limits_expiring(st, user_id, now, w) ==
    LET k == Str(user_id)
        s1 == get_user(st, user_id, now)
        today == Date(now)
        premium == s1.users[k].is_premium /\ s1.users[k].premium_expires > now
    IN IF s1.users[k].last_reset # today
       THEN [save_user_data(
                [s1 EXCEPT !.users = [s1.users EXCEPT ![k].downloads_today = 0,
                                                      ![k].summaries_today = 0,
                                                      ![k].last_reset = today,
                                                      ![k].is_premium = premium]], w)
             EXCEPT !.ret = FALSE]
       ELSE [s1 EXCEPT !.ret = FALSE]

reset_daily_limits_all(st, user_id, now, w) ==
    LET k == Str(user_id)
        s1 == get_user(st, user_id, now)
        today == Date(now)
    IN IF s1.users[k].last_reset # today
       THEN [save_user_data(
                [s1 EXCEPT !.users = [x \in DOMAIN s1.users |->
                                         [s1.users[x] EXCEPT !.downloads_today = 0,
                                                             !.summaries_today = 0,
                                                             !.last_reset = today]]], w)
             EXCEPT !.ret = FALSE]
       ELSE [s1 EXCEPT !.ret = FALSE]

reset_daily_limits(st, user_id, now, w) ==
    LET k == Str(user_id)
        s1 == get_user(st, user_id, now)
        today == Date(now)
    IN IF s1.users[k].last_reset # today
       THEN [save_user_data(
                [s1 EXCEPT !.users = [s1.users EXCEPT ![k].downloads_today = 0,
                                                      ![k].summaries_today = 0,
                                                      ![k].last_reset = today]], w)
             EXCEPT !.ret = FALSE]
       ELSE [s1 EXCEPT !.ret = FALSE]

\* can_download with an off-by-one comparison
can_download_inclusive(st, user_id, now, w) ==
    LET k == Str(user_id)
        s1 == get_user(st, user_id, now)
    IN IF ~s1.users[k].is_subscribed
       THEN [s1 EXCEPT !.ret = FALSE]
       ELSE LET s2 == reset_daily_limits(s1, user_id, now, w)
                user == s2.users[k]
            IN IF user.is_premium
               THEN [s2 EXCEPT !.ret = user.downloads_today <= MAX_PREMIUM_DOWNLOADS]
               ELSE [s2 EXCEPT !.ret = user.downloads_today <= MAX_FREE_DOWNLOADS]

can_download(st, user_id, now, w) ==
    LET k == Str(user_id)
        s1 == get_user(st, user_id, now)
    IN IF ~s1.users[k].is_subscribed
       THEN [s1 EXCEPT !.ret = FALSE]
       ELSE LET s2 == reset_daily_limits(s1, user_id, now, w)
                user == s2.users[k]
            IN IF user.is_premium
               THEN [s2 EXCEPT !.ret = user.downloads_today < MAX_PREMIUM_DOWNLOADS]
               ELSE [s2 EXCEPT !.ret = user.downloads_today < MAX_FREE_DOWNLOADS]

\* can_summarize that reads the download counter
can_summarize_reads_downloads(st, user_id, now, w) ==
    LET k == Str(user_id)
        s1 == get_user(st, user_id, now)
    IN IF ~s1.users[k].is_subscribed
       THEN [s1 EXCEPT !.ret = FALSE]
       ELSE LET s2 == reset_daily_limits(s1, user_id, now, w)
                user == s2.users[k]
            IN IF user.is_premium
               THEN [s2 EXCEPT !.ret = user.downloads_today < MAX_PREMIUM_SUMMARIES]
               ELSE [s2 EXCEPT !.ret = user.downloads_today < MAX_FREE_SUMMARIES]

can_summarize(st, user_id, now, w) ==
    LET k == Str(user_id)
        s1 == get_user(st, user_id, now)
    IN IF ~s1.users[k].is_subscribed
       THEN [s1 EXCEPT !.ret = FALSE]
       ELSE LET s2 == reset_daily_limits(s1, user_id, now, w)
                user == s2.users[k]
            IN IF user.is_premium
               THEN [s2 EXCEPT !.ret = user.summaries_today < MAX_PREMIUM_SUMMARIES]
               ELSE [s2 EXCEPT !.ret = user.summaries_today < MAX_FREE_SUMMARIES]

get_max_file_size(st, user_id, now) ==
    LET s1 == get_user(st, user_id, now)
    IN IF s1.users[Str(user_id)].is_premium
       THEN [s1 EXCEPT !.ret = PREMIUM_MAX_FILE_SIZE]
       ELSE [s1 EXCEPT !.ret = FREE_MAX_FILE_SIZE]

\* increment_download that forgets the lifetime total
increment_download_no_total(st, user_id, now, w) ==
    LET k == Str(user_id)
        s1 == get_user(st, user_id, now)
        u == [s1.users EXCEPT ![k].downloads_today = @ + 1]
    IN [save_user_data([s1 EXCEPT !.users = u], w) EXCEPT !.ret = FALSE]

increment_download(st, user_id, now, w) ==
    LET k == Str(user_id)
        s1 == get_user(st, user_id, now)
        u == [s1.users EXCEPT ![k].downloads_today = @ + 1,
                              ![k].total_downloads = @ + 1]
    IN [save_user_data([s1 EXCEPT !.users = u], w) EXCEPT !.ret = FALSE]

increment_summary(st, user_id, now, w) ==
    LET k == Str(user_id)
        s1 == get_user(st, user_id, now)
        u == [s1.users EXCEPT ![k].summaries_today = @ + 1,
                              ![k].total_summaries = @ + 1]
    IN [save_user_data([s1 EXCEPT !.users = u], w) EXCEPT !.ret = FALSE]


(***************************************************************************)
(* Strings of the router: a text is a sequence of characters.              *)
(***************************************************************************)
LowerChar(c) ==
    CASE c = "Y" -> "y" [] c = "O" -> "o" [] c = "U" -> "u" [] c = "T" -> "t"
      [] c = "B" -> "b" [] c = "E" -> "e" [] c = "C" -> "c" [] c = "M" -> "m"
      [] OTHER -> c

\* str.lower()
Lower(s) == [i \in 1..Len(s) |-> LowerChar(s[i])]

\* Python's `d in s` for strings: d occurs in s as a substring
Contains(s, d) ==
    \E i \in 1..(Len(s) - Len(d) + 1) : SubSeq(s, i, i + Len(d) - 1) = d

youtube_domains ==
    { <<"y", "o", "u", "t", "u", "b", "e", ".", "c", "o", "m">>,
      <<"y", "o", "u", "t", "u", ".", "b", "e">>,
      <<"m", ".", "y", "o", "u", "t", "u", "b", "e", ".", "c", "o", "m">>,
      <<"y", "o", "u", "t", "u", "b", "e", ".", "b", "e">> }

\* the router without url.lower()
is_youtube_case_sensitive(url) == \E d \in youtube_domains : Contains(url, d)

\* handle_url: is_youtube = any(d in url.lower() for d in youtube_domains)
is_youtube(url) == \E d \in youtube_domains : Contains(Lower(url), d)

\* The texts of the inbound messages
Urls ==
    { <<"h", "t", "t", "p", "s", ":", "/", "/", "y", "o", "u", "t", "u", ".", "b", "e", "/", "a", "b", "c", "1", "2", "3">>,
      <<"h", "t", "t", "p", "s", ":", "/", "/", "e", "x", "a", "m", "p", "l", "e", ".", "c", "o", "m", "/", "n", "e", "w", "s", "/", "s", "t", "o", "r", "y">>,
      <<"h", "t", "t", "p", "s", ":", "/", "/", "Y", "o", "u", "T", "u", "b", "e", ".", "c", "o", "m", "/", "w">>,
      <<"h", "t", "t", "p", "s", ":", "/", "/", "e", "x", "a", "m", "p", "l", "e", ".", "c", "o", "m", "/", "?", "u", "=", "y", "o", "u", "t", "u", ".", "b", "e">>,
      <<"h", "e", "l", "l", "o">> }


(***************************************************************************)
(* Pipelines                                                               *)
(***************************************************************************)
\* s[:n]
Sliced(s, n) == SubSeq(s, 1, IF n < Len(s) THEN n ELSE Len(s))

\* a description of n characters
DescriptionOf(n) == [i \in 1..n |-> "d"]

\* info.get("description", "")[:500] + "..." if info.get("description") else ""
Described(description) ==
    IF description # <<>> THEN Sliced(description, 500) \o <<".", ".", ".">> ELSE <<>>

\* What the media host answers: extract_info succeeds or raises, the sizes of
\* the resolved metadata (0: absent or None), ydl.download succeeds or raises,
\* the description of the metadata (empty: absent, None or "").
Infos ==
    [extract : BOOLEAN,
     filesize : {0, FREE_MAX_FILE_SIZE, FREE_MAX_FILE_SIZE + 1},
     filesize_approx : {0, PREMIUM_MAX_FILE_SIZE + 1},
     transfer : BOOLEAN,
     description : {DescriptionOf(3)}]

\* if x: a number other than 0, not None
Truthy(x) == x # None /\ x # 0

\* download_youtube_video that refuses a file of unknown size
download_youtube_video_refuses_unsized(st, user_id, now, info) ==
    LET s1 == get_user(st, user_id, now)
        s2 == get_max_file_size(s1, user_id, now)
        max_file_size == s2.ret
        filesize == IF Truthy(info.filesize) THEN info.filesize ELSE info.filesize_approx
    IN IF ~info.extract
       THEN [s2 EXCEPT !.ret = [success |-> FALSE, error |-> "Download failed",
                                transferred |-> FALSE, raised |-> FALSE,
                                description |-> <<>>]]
       ELSE IF ~Truthy(filesize) \/ filesize > max_file_size
       THEN [s2 EXCEPT !.ret = [success |-> FALSE, error |-> "File too large",
                                transferred |-> FALSE, raised |-> FALSE,
                                description |-> <<>>]]
       ELSE IF ~info.transfer
       THEN [s2 EXCEPT !.ret = [success |-> FALSE, error |-> "Download failed",
                                transferred |-> TRUE, raised |-> FALSE,
                                description |-> <<>>]]
       ELSE [s2 EXCEPT !.ret = [success |-> TRUE, error |-> "",
                                transferred |-> TRUE, raised |-> FALSE,
                                description |-> Described(info.description)]]

\* download_youtube_video that starts the transfer before it compares the size
download_youtube_video_checks_late(st, user_id, now, info) ==
    LET s1 == get_user(st, user_id, now)
        s2 == get_max_file_size(s1, user_id, now)
        max_file_size == s2.ret
        filesize == IF Truthy(info.filesize) THEN info.filesize ELSE info.filesize_approx
    IN IF ~info.extract
       THEN [s2 EXCEPT !.ret = [success |-> FALSE, error |-> "Download failed",
                                transferred |-> FALSE, raised |-> FALSE,
                                description |-> <<>>]]
       ELSE IF ~info.transfer
       THEN [s2 EXCEPT !.ret = [success |-> FALSE, error |-> "Download failed",
                                transferred |-> TRUE, raised |-> FALSE,
                                description |-> <<>>]]
       ELSE IF Truthy(filesize) /\ filesize > max_file_size
       THEN [s2 EXCEPT !.ret = [success |-> FALSE, error |-> "File too large",
                                transferred |-> TRUE, raised |-> FALSE,
                                description |-> <<>>]]
       ELSE [s2 EXCEPT !.ret = [success |-> TRUE, error |-> "",
                                transferred |-> TRUE, raised |-> FALSE,
                                description |-> Described(info.description)]]

\* download_youtube_video, format_type = "video".  ret = [success, error,
\* transferred, raised, description]: transferred tells whether ydl.download ran, raised
\* whether the call ended with an exception instead of returning a result.
\* The whole body is inside try / except Exception.
download_youtube_video(st, user_id, now, info) ==
    LET s1 == get_user(st, user_id, now)
        s2 == get_max_file_size(s1, user_id, now)
        max_file_size == s2.ret
        filesize == IF Truthy(info.filesize) THEN info.filesize ELSE info.filesize_approx
    IN IF ~info.extract
       THEN [s2 EXCEPT !.ret = [success |-> FALSE, error |-> "Download failed",
                                transferred |-> FALSE, raised |-> FALSE,
                                description |-> <<>>]]
       ELSE IF Truthy(filesize) /\ filesize > max_file_size
       THEN [s2 EXCEPT !.ret = [success |-> FALSE, error |-> "File too large",
                                transferred |-> FALSE, raised |-> FALSE,
                                description |-> <<>>]]
       ELSE IF ~info.transfer
       THEN [s2 EXCEPT !.ret = [success |-> FALSE, error |-> "Download failed",
                                transferred |-> TRUE, raised |-> FALSE,
                                description |-> <<>>]]
       ELSE [s2 EXCEPT !.ret = [success |-> TRUE, error |-> "",
                                transferred |-> TRUE, raised |-> FALSE,
                                description |-> Described(info.description)]]

(***************************************************************************)
(* Strings of the summarizer: a text is the sequence of its characters.    *)
(***************************************************************************)
\* the order of the characters that occur in the texts, as Python compares them
Ord(c) ==
    CASE c = " " -> 32 [] c = "." -> 46 [] c = "a" -> 97 [] c = "b" -> 98
      [] c = "c" -> 99 [] c = "d" -> 100 [] c = "e" -> 101 [] c = "f" -> 102
      [] OTHER -> 120

\* s < t for two strings: at the first index where they differ s has the
\* smaller character, or s is a proper prefix of t
StrLess(s, t) ==
    \E i \in 1..Len(t) :
        /\ i <= Len(s) + 1
        /\ SubSeq(s, 1, i - 1) = SubSeq(t, 1, i - 1)
        /\ (i = Len(s) + 1 \/ Ord(s[i]) < Ord(t[i]))

\* s[:n]
Take(s, n) == SubSeq(s, 1, IF n < Len(s) THEN n ELSE Len(s))

\* s.split(". ")
RECURSIVE SplitSentences(_)
SplitSentences(s) ==
    LET at == {i \in 1..(Len(s) - 1) : s[i] = "." /\ s[i + 1] = " "}
    IN IF at = {} THEN <<s>>
       ELSE LET i == CHOOSE x \in at : \A y \in 1..(x - 1) : y \notin at
            IN <<SubSeq(s, 1, i - 1)>> \o SplitSentences(SubSeq(s, i + 2, Len(s)))

\* s.strip()
Strip(s) ==
    LET ink == {i \in 1..Len(s) : s[i] # " "}
    IN IF ink = {} THEN <<>>
       ELSE SubSeq(s, CHOOSE x \in ink : \A y \in 1..(x - 1) : s[y] = " ",
                      CHOOSE x \in ink : \A y \in (x + 1)..Len(s) : s[y] = " ")

\* s.split(): the maximal runs of characters that are not white space.  The
\* text is divided at the blank nearest to its middle.
RECURSIVE SplitWords(_)
SplitWords(s) ==
    LET n == Len(s)
        mid == (n + 1) \div 2
        Blank(i) == i >= 1 /\ i <= n /\ s[i] = " "
    IN IF n = 0 THEN <<>>
       ELSE IF \A i \in 1..n : s[i] # " " THEN <<s>>
       ELSE LET d == CHOOSE x \in 0..n :
                        /\ Blank(mid - x) \/ Blank(mid + x)
                        /\ \A y \in 0..(x - 1) : ~Blank(mid - y) /\ ~Blank(mid + y)
                i == IF Blank(mid - d) THEN mid - d ELSE mid + d
            IN SplitWords(SubSeq(s, 1, i - 1)) \o SplitWords(SubSeq(s, i + 1, n))

\* sep.join(parts), the parts divided at their middle
RECURSIVE Join(_, _)
Join(parts, sep) ==
    LET n == Len(parts)
        h == n \div 2
    IN IF n = 0 THEN <<>>
       ELSE IF n = 1 THEN parts[1]
       ELSE Join(SubSeq(parts, 1, h), sep) \o sep \o Join(SubSeq(parts, h + 1, n), sep)

\* (score, sentence) tuples as Python orders them
TupleLess(p, q) ==
    \/ p[1] < q[1]
    \/ p[1] = q[1] /\ StrLess(p[2], q[2])

\* list.sort(reverse=True)
RECURSIVE SortReverse(_)
SortReverse(ps) ==
    IF ps = <<>> THEN <<>>
    ELSE LET i == CHOOSE x \in 1..Len(ps) :
                      /\ \A y \in 1..Len(ps) : ~TupleLess(ps[x], ps[y])
                      /\ \A y \in 1..(x - 1) : TupleLess(ps[y], ps[x])
             rest == [j \in 1..(Len(ps) - 1) |-> IF j < i THEN ps[j] ELSE ps[j + 1]]
         IN <<ps[i]>> \o SortReverse(rest)

\* the scoring without the factors of position
RECURSIVE ScoredFrom_unweighted(_, _)
ScoredFrom_unweighted(sentences, i) ==
    IF i > Len(sentences) THEN <<>>
    ELSE LET s == Strip(sentences[i])
         IN IF Len(s) < 10 THEN ScoredFrom_unweighted(sentences, i + 1)
            ELSE <<(<<Len(SplitWords(s)) * 100, s>>)>>
                 \o ScoredFrom_unweighted(sentences, i + 1)

\* the loop of summarize_with_local_extraction from sentence i on: the
\* (score, sentence) tuples of the stripped sentences of at least 10
\* characters.  A score is kept in hundredths: the factors 1.5 and 1.2 are
\* 15/10 and 12/10.  i counts from 1, the index of the source is i - 1.
RECURSIVE ScoredFrom(_, _)
ScoredFrom(sentences, i) ==
    IF i > Len(sentences) THEN <<>>
    ELSE LET s == Strip(sentences[i])
             words == Len(SplitWords(s))
             first == IF i - 1 = 0 THEN 15 ELSE 10
             third == IF i - 1 < Len(sentences) \div 3 THEN 12 ELSE 10
         IN IF Len(s) < 10 THEN ScoredFrom(sentences, i + 1)
            ELSE <<(<<words * first * third, s>>)>> \o ScoredFrom(sentences, i + 1)

Ellipsis == <<".", ".", ".">>

\* if len(summary) > max_length: summary = summary[:max_length] + "..."
Capped(summary, max_length) ==
    IF Len(summary) > max_length THEN Take(summary, max_length) \o Ellipsis
    ELSE summary

\* strategy A without the shortcut for short texts
summarize_with_local_extraction_always_scores(text, max_length) ==
    LET sentences == SplitSentences(text)
        sorted == SortReverse(ScoredFrom(sentences, 1))
        top_sentences == [i \in 1..(IF Len(sorted) < 3 THEN Len(sorted) ELSE 3) |->
                             sorted[i][2]]
        summary == Join(top_sentences, <<".", " ">>)
    IN [success |-> TRUE, summary |-> Capped(summary, max_length) \o <<".">>]

\* strategy A that reports failure when no sentence was scored
summarize_with_local_extraction_needs_scored(text, max_length) ==
    LET sentences == SplitSentences(text)
        sorted == SortReverse(ScoredFrom(sentences, 1))
        top_sentences == [i \in 1..(IF Len(sorted) < 3 THEN Len(sorted) ELSE 3) |->
                             sorted[i][2]]
        summary == Join(top_sentences, <<".", " ">>)
    IN IF Len(sentences) <= 3
       THEN [success |-> TRUE, summary |-> text]
       ELSE IF sorted = <<>>
       THEN [success |-> FALSE, summary |-> <<>>]
       ELSE [success |-> TRUE, summary |-> Capped(summary, max_length) \o <<".">>]

\* summarize_with_local_extraction (strategy A)
summarize_with_local_extraction(text, max_length) ==
    LET sentences == SplitSentences(text)
        sorted == SortReverse(ScoredFrom(sentences, 1))
        top_sentences == [i \in 1..(IF Len(sorted) < 3 THEN Len(sorted) ELSE 3) |->
                             sorted[i][2]]
        summary == Join(top_sentences, <<".", " ">>)
    IN IF Len(sentences) <= 3
       THEN [success |-> TRUE, summary |-> text]
       ELSE [success |-> TRUE, summary |-> Capped(summary, max_length) \o <<".">>]

\* strategy B that cuts at the output cap instead of 50 words
summarize_with_simple_method_by_length(text, max_length) ==
    IF Len(text) <= max_length THEN [success |-> TRUE, summary |-> text]
    ELSE [success |-> TRUE, summary |-> Take(text, max_length) \o Ellipsis]

\* summarize_with_simple_method (strategy B)
summarize_with_simple_method(text, max_length) ==
    LET words == SplitWords(text)
    IN IF Len(words) <= 50 THEN [success |-> TRUE, summary |-> text]
       ELSE [success |-> TRUE,
             summary |-> Join(Take(words, 50), <<" ">>) \o Ellipsis]

(***************************************************************************)
(* The texts handed to the summarizer                                      *)
(***************************************************************************)
\* a word of n letters c, and a sentence of count such words
Word(c, n) == [i \in 1..n |-> c]
Sentence(c, n, count) == Join([i \in 1..count |-> Word(c, n)], <<" ">>)

\* sentences joined by ". "
Sentences(ss) == Join(ss, <<".", " ">>)

\* texts of 99, 100 and 120 characters in one sentence
Text99 == Sentence("a", 9, 10)
Text100 == Sentence("a", 9, 10) \o <<".">>
Text120 == Sentence("a", 9, 12) \o <<".">>

\* the texts that the pages of the handlers yield
PageTexts == {Text99, Text100, Text120}

\* four sentences of more than 500 characters together, and one sentence of
\* 51 words and 509 characters
LongText ==
    Sentences(<<Sentence("a", 9, 20), Sentence("b", 9, 21), Sentence("c", 9, 22),
                Sentence("d", 9, 19)>>)
FlatText == Sentence("e", 9, 51)

\* the texts of the articles
ArticleTexts == PageTexts \cup {LongText, FlatText}

\* four sentences of 3, 5, 4 and 6 words
RankText ==
    Sentences(<<Sentence("a", 4, 3), Sentence("b", 2, 5), Sentence("c", 3, 4),
                Sentence("d", 2, 6)>>)

\* six sentences of 4, 5, 5, 2, 4 and 5 words; the fourth has 5 characters
SixText ==
    Sentences(<<Sentence("a", 2, 4), Sentence("b", 2, 5), Sentence("c", 2, 5),
                Sentence("s", 2, 2), Sentence("e", 2, 4), Sentence("f", 2, 5)>>)

\* four sentences of which three have 2 characters
TinyText ==
    Sentences(<<Word("a", 2), Word("b", 2), Word("c", 2), Sentence("d", 4, 3)>>)

\* four sentences, none of which has 10 characters
BareText ==
    Sentences(<<Word("a", 2), Word("b", 2), Word("c", 2), Word("d", 2)>>)

\* the empty text
EmptyText == <<>>

\* three sentences
ThreeText ==
    Sentences(<<Sentence("a", 4, 3), Sentence("b", 2, 5), Sentence("c", 3, 4)>>)

\* 50 words, and 3 and 51 words with two blanks between them
FiftyText == Sentence("e", 9, 50)
WideText == Join([i \in 1..3 |-> Word("g", 2)], <<" ", " ">>)
SpacedText == Join([i \in 1..51 |-> Word("g", 1)], <<" ", " ">>)

\* the texts handed to the strategies
SampleTexts ==
    ArticleTexts
    \cup {RankText, SixText, TinyText, ThreeText, FiftyText, WideText, SpacedText,
          BareText, EmptyText}

\* the output caps of the tiers
OutputCaps == {300, 500}

\* What a strategy does when summarize_text calls it: it runs and returns its
\* result, it meets an internal error and returns success = False, or an
\* exception leaves it
Faults == [a : {"runs", "fails", "raises"}, b : {"runs", "fails", "raises"}]

\* the faults that the pages of the handlers meet
PageFaults ==
    {[a |-> "runs", b |-> "runs"], [a |-> "fails", b |-> "runs"],
     [a |-> "raises", b |-> "fails"]}

\* What the article host answers and what the text processing does:
\* requests.get returns or raises, the status code, BeautifulSoup parses or
\* raises, the joined and whitespace-collapsed text of the kept paragraphs,
\* and the faults of the strategies.
\* A field that the code never reaches (the status of a request that raised,
\* the text of a page that was refused or did not parse) is held at one value.
Pages ==
    {p \in [fetch : BOOLEAN, status_code : {200, 404}, parse : BOOLEAN,
             text : PageTexts, faults : PageFaults] :
        \/ p.fetch /\ p.status_code = 200 /\ p.parse
        \/ /\ p.text = Text120
           /\ p.faults = [a |-> "runs", b |-> "runs"]
           /\ \/ ~p.fetch /\ p.status_code = 200 /\ p.parse
              \/ p.fetch /\ p.status_code = 404 /\ p.parse
              \/ p.fetch /\ p.status_code = 200 /\ ~p.parse}

\* what a strategy hands back to summarize_text under fault f
StrategyResult(f, result) ==
    IF f = "runs" THEN result ELSE [success |-> FALSE, summary |-> <<>>]

\* summarize_text that tries strategy B first
summarize_text_b_first(text, max_length, faults) ==
    LET ra == StrategyResult(faults.a, summarize_with_local_extraction(text, max_length))
        rb == StrategyResult(faults.b, summarize_with_simple_method(text, max_length))
    IN IF rb.success
       THEN [success |-> TRUE, summary |-> rb.summary, error |-> "", raised |-> FALSE,
             tried |-> <<"summarize_with_simple_method">>]
       ELSE IF ra.success
       THEN [success |-> TRUE, summary |-> ra.summary, error |-> "", raised |-> FALSE,
             tried |-> <<"summarize_with_simple_method",
                         "summarize_with_local_extraction">>]
       ELSE [success |-> FALSE, summary |-> <<>>,
             error |-> "Summarization services temporarily unavailable. Please try again later.",
             raised |-> FALSE,
             tried |-> <<"summarize_with_simple_method",
                         "summarize_with_local_extraction">>]

\* summarize_text that hands the text back when every strategy failed
summarize_text_echo(text, max_length, faults) ==
    LET ra == StrategyResult(faults.a, summarize_with_local_extraction(text, max_length))
        rb == StrategyResult(faults.b, summarize_with_simple_method(text, max_length))
    IN [success |-> TRUE,
        summary |-> IF ra.success THEN ra.summary
                    ELSE IF rb.success THEN rb.summary ELSE text,
        error |-> "", raised |-> FALSE,
        tried |-> IF ra.success THEN <<"summarize_with_local_extraction">>
                  ELSE <<"summarize_with_local_extraction",
                         "summarize_with_simple_method">>]

\* summarize_text: the strategies of self.free_apis in their order; the first
\* result with success is returned; a result without success and an
\* exception of a strategy both lead to the next one.  tried lists the
\* strategies that were called.
summarize_text(text, max_length, faults) ==
    LET ra == StrategyResult(faults.a, summarize_with_local_extraction(text, max_length))
        rb == StrategyResult(faults.b, summarize_with_simple_method(text, max_length))
    IN IF ra.success
       THEN [success |-> TRUE, summary |-> ra.summary, error |-> "", raised |-> FALSE,
             tried |-> <<"summarize_with_local_extraction">>]
       ELSE IF rb.success
       THEN [success |-> TRUE, summary |-> rb.summary, error |-> "", raised |-> FALSE,
             tried |-> <<"summarize_with_local_extraction",
                         "summarize_with_simple_method">>]
       ELSE [success |-> FALSE, summary |-> <<>>,
             error |-> "Summarization services temporarily unavailable. Please try again later.",
             raised |-> FALSE,
             tried |-> <<"summarize_with_local_extraction",
                         "summarize_with_simple_method">>]

\* The results on the sample texts for the two output caps, computed once;
\* Memo(table, x) is the result for argument x.
Memo(table, x) == (CHOOSE p \in table : p[1] = x)[2]

LocalExtractions ==
    {<<x, summarize_with_local_extraction(x[1], x[2])>> : x \in SampleTexts \X OutputCaps}

SimpleMethods ==
    {<<x, summarize_with_simple_method(x[1], x[2])>> : x \in SampleTexts \X OutputCaps}

TextSummaries ==
    {<<x, summarize_text(x[1], x[2], x[3])>> : x \in ArticleTexts \X OutputCaps \X Faults}

\* a failure result of summarize_url; extracted tells whether the text
\* extraction ran
UrlFailure(error, extracted) ==
    [success |-> FALSE, summary |-> <<>>, error |-> error, raised |-> FALSE,
     extracted |-> extracted, tried |-> <<>>]

\* the result of summarize_text as summarize_url returns it
UrlResult(r) ==
    [success |-> r.success, summary |-> r.summary, error |-> r.error,
     raised |-> r.raised, extracted |-> TRUE, tried |-> r.tried]

\* summarize_url without its try / except
summarize_url_unguarded(st, user_id, now, page) ==
    LET s1 == get_user(st, user_id, now)
        user == s1.users[Str(user_id)]
    IN IF ~page.fetch \/ (page.status_code = 200 /\ ~page.parse)
       THEN [s1 EXCEPT !.ret = [UrlFailure("", page.fetch) EXCEPT !.raised = TRUE]]
       ELSE IF page.status_code # 200
       THEN [s1 EXCEPT !.ret = UrlFailure("Could not fetch URL", FALSE)]
       ELSE IF Len(page.text) < 100
       THEN [s1 EXCEPT !.ret = UrlFailure("Not enough content found to summarize", TRUE)]
       ELSE [s1 EXCEPT !.ret = UrlResult(Memo(TextSummaries,
                <<Take(page.text, IF user.is_premium THEN 5000 ELSE 3000),
                  IF user.is_premium THEN 500 ELSE 300, page.faults>>))]

\* summarize_url that runs the text extraction whatever the status code
summarize_url_ignores_status(st, user_id, now, page) ==
    LET s1 == get_user(st, user_id, now)
        user == s1.users[Str(user_id)]
    IN IF ~page.fetch
       THEN [s1 EXCEPT !.ret = UrlFailure("Could not process this URL", FALSE)]
       ELSE IF ~page.parse
       THEN [s1 EXCEPT !.ret = UrlFailure("Could not process this URL", TRUE)]
       ELSE IF Len(page.text) < 100
       THEN [s1 EXCEPT !.ret = UrlFailure("Not enough content found to summarize", TRUE)]
       ELSE [s1 EXCEPT !.ret = UrlResult(Memo(TextSummaries,
                <<Take(page.text, IF user.is_premium THEN 5000 ELSE 3000),
                  IF user.is_premium THEN 500 ELSE 300, page.faults>>))]

\* summarize_url with the threshold one character too high
summarize_url_threshold_101(st, user_id, now, page) ==
    LET s1 == get_user(st, user_id, now)
        user == s1.users[Str(user_id)]
    IN IF ~page.fetch
       THEN [s1 EXCEPT !.ret = UrlFailure("Could not process this URL", FALSE)]
       ELSE IF page.status_code # 200
       THEN [s1 EXCEPT !.ret = UrlFailure("Could not fetch URL", FALSE)]
       ELSE IF ~page.parse
       THEN [s1 EXCEPT !.ret = UrlFailure("Could not process this URL", TRUE)]
       ELSE IF Len(page.text) <= 100
       THEN [s1 EXCEPT !.ret = UrlFailure("Not enough content found to summarize", TRUE)]
       ELSE [s1 EXCEPT !.ret = UrlResult(Memo(TextSummaries,
                <<Take(page.text, IF user.is_premium THEN 5000 ELSE 3000),
                  IF user.is_premium THEN 500 ELSE 300, page.faults>>))]

\* summarize_url: the fetch, the status check, the text extraction, the
\* length threshold, the processing ceiling and summarize_text with the
\* output cap of the tier; the whole body is inside try / except Exception.
\* ret = [success, summary, error, raised, extracted, tried].
summarize_url(st, user_id, now, page) ==
    LET s1 == get_user(st, user_id, now)
        user == s1.users[Str(user_id)]
    IN IF ~page.fetch
       THEN [s1 EXCEPT !.ret = UrlFailure("Could not process this URL", FALSE)]
       ELSE IF page.status_code # 200
       THEN [s1 EXCEPT !.ret = UrlFailure("Could not fetch URL", FALSE)]
       ELSE IF ~page.parse
       THEN [s1 EXCEPT !.ret = UrlFailure("Could not process this URL", TRUE)]
       ELSE IF Len(page.text) < 100
       THEN [s1 EXCEPT !.ret = UrlFailure("Not enough content found to summarize", TRUE)]
       ELSE [s1 EXCEPT !.ret = UrlResult(Memo(TextSummaries,
                <<Take(page.text, IF user.is_premium THEN 5000 ELSE 3000),
                  IF user.is_premium THEN 500 ELSE 300, page.faults>>))]

(***************************************************************************)
(* Handlers.  A handler runs from one await to the next without being      *)
(* interleaved; at an await other tasks run.  A task records what its      *)
(* request did: the gating check it called and what it returned, the       *)
(* pipeline it invoked, how many times, and its result, the increment it   *)
(* performed and how many times, and the file that the media pipeline left *)
(* in the download folder: "none", "exists" or "removed", and what its     *)
(* delivery met, "none" until it was attempted.                            *)
(***************************************************************************)
IdleTask ==
    [pc |-> "idle", uid |-> 0, media |-> FALSE, check |-> "none",
     admitted |-> FALSE, pipeline |-> "none", attempts |-> 0, result |-> "none",
     counted |-> "none", increments |-> 0, artifact |-> "none",
     delivery |-> "none"]

\* handle_youtube_download that goes on whatever the gating check returned
handle_youtube_download_no_gate(st, user_id, now, w) ==
    LET s1 == can_download(st, user_id, now, w)
        t == [IdleTask EXCEPT !.uid = user_id, !.media = TRUE,
                              !.check = "can_download"]
    IN [st |-> s1, task |-> [t EXCEPT !.pc = "processing", !.admitted = s1.ret]]

\* handle_youtube_download up to its first await: the gating check.  Returns
\* the store and the task; a refused request only replies and returns.
handle_youtube_download(st, user_id, now, w) ==
    LET s1 == can_download(st, user_id, now, w)
        t == [IdleTask EXCEPT !.uid = user_id, !.media = TRUE,
                              !.check = "can_download"]
    IN IF ~s1.ret
       THEN [st |-> get_user(s1, user_id, now), task |-> [t EXCEPT !.pc = "done"]]
       ELSE [st |-> s1, task |-> [t EXCEPT !.pc = "processing", !.admitted = TRUE]]

\* handle_article_summary up to its first await
handle_article_summary(st, user_id, now, w) ==
    LET s1 == can_summarize(st, user_id, now, w)
        t == [IdleTask EXCEPT !.uid = user_id, !.media = FALSE,
                              !.check = "can_summarize"]
    IN IF ~s1.ret
       THEN [st |-> get_user(s1, user_id, now), task |-> [t EXCEPT !.pc = "done"]]
       ELSE [st |-> s1, task |-> [t EXCEPT !.pc = "processing", !.admitted = TRUE]]

\* handle_url that routes the message without asking is_subscribed
handle_url_ungated(st, user_id, url, now, w) ==
    IF is_youtube(url)
    THEN handle_youtube_download(st, user_id, now, w)
    ELSE handle_article_summary(st, user_id, now, w)

\* handle_url: the subscription gate and the router
handle_url(st, user_id, url, now, w) ==
    LET s1 == is_subscribed(st, user_id, now)
    IN IF ~s1.ret
       THEN [st |-> s1,
             task |-> [IdleTask EXCEPT !.pc = "done", !.uid = user_id,
                                       !.media = is_youtube(url)]]
       ELSE IF is_youtube(url)
       THEN handle_youtube_download(s1, user_id, now, w)
       ELSE handle_article_summary(s1, user_id, now, w)

\* the download handler that counts the request whatever the pipeline returned
youtube_download_resume_counts_all(st, task, now, info, w) ==
    LET s1 == download_youtube_video(st, task.uid, now, info)
        t == [task EXCEPT !.pipeline = "download_youtube_video", !.attempts = @ + 1]
    IN [st |-> get_user(increment_download(s1, task.uid, now, w), task.uid, now),
        task |-> [t EXCEPT !.pc = IF s1.ret.success THEN "sending" ELSE "done",
                           !.result = IF s1.ret.success THEN "success" ELSE "failure",
                           !.counted = "increment_download",
                           !.increments = @ + 1,
                           !.artifact = IF s1.ret.success THEN "exists" ELSE "none"]]

\* handle_youtube_download after the "Processing" reply: the pipeline, then
\* the increment when it reports success
youtube_download_resume(st, task, now, info, w) ==
    LET s1 == download_youtube_video(st, task.uid, now, info)
        t == [task EXCEPT !.pipeline = "download_youtube_video", !.attempts = @ + 1]
    IN IF s1.ret.success
       THEN [st |-> get_user(increment_download(s1, task.uid, now, w), task.uid, now),
             task |-> [t EXCEPT !.pc = "sending", !.result = "success",
                                !.counted = "increment_download",
                                !.increments = @ + 1,
                                !.artifact = "exists"]]
       ELSE [st |-> s1, task |-> [t EXCEPT !.pc = "done", !.result = "failure"]]

\* the summary handler that asks the pipeline a second time after a failure
article_summary_resume_retries(st, task, now, page, w) ==
    LET s1 == summarize_url(st, task.uid, now, page)
        s2 == IF s1.ret.success THEN s1 ELSE summarize_url(s1, task.uid, now, page)
        t == [task EXCEPT !.pipeline = "summarize_url",
                          !.attempts = IF s1.ret.success THEN @ + 1 ELSE @ + 2]
    IN IF s2.ret.success
       THEN [st |-> get_user(increment_summary(s2, task.uid, now, w), task.uid, now),
             task |-> [t EXCEPT !.pc = "done", !.result = "success",
                                !.counted = "increment_summary",
                                !.increments = @ + 1]]
       ELSE [st |-> s2, task |-> [t EXCEPT !.pc = "done", !.result = "failure"]]

\* handle_article_summary after the "Analyzing" reply
article_summary_resume(st, task, now, page, w) ==
    LET s1 == summarize_url(st, task.uid, now, page)
        t == [task EXCEPT !.pipeline = "summarize_url", !.attempts = @ + 1]
    IN IF s1.ret.success
       THEN [st |-> get_user(increment_summary(s1, task.uid, now, w), task.uid, now),
             task |-> [t EXCEPT !.pc = "done", !.result = "success",
                                !.counted = "increment_summary",
                                !.increments = @ + 1]]
       ELSE [st |-> s1, task |-> [t EXCEPT !.pc = "done", !.result = "failure"]]

\* The writes of save_user_data that the handlers and the callers below meet:
\* the file is written.
WriteOutcomes == {"ok"}

Commit(r, t) ==
    /\ users' = r.st.users
    /\ disk' = r.st.disk
    /\ tasks' = [tasks EXCEPT ![t] = r.task]

\* An inbound text message is dispatched to a free task, which runs handle_url
\* to its first await.
HandleUrl(t, user_id, url, w) ==
    /\ tasks[t].pc = "idle"
    /\ requests < MaxRequests
    /\ requests' = requests + 1
    /\ Commit(handle_url(Store(users, disk), user_id, url, clock, w), t)
    /\ UNCHANGED <<clock, call>>

\* The "Processing" reply of an admitted download request returns
RunDownload(t, info, w) ==
    /\ tasks[t].pc = "processing"
    /\ tasks[t].media
    /\ Commit(youtube_download_resume(Store(users, disk), tasks[t], clock, info, w), t)
    /\ UNCHANGED <<clock, requests, call>>

\* The "Analyzing" reply of an admitted summary request returns
RunSummary(t, page, w) ==
    /\ tasks[t].pc = "processing"
    /\ ~tasks[t].media
    /\ Commit(article_summary_resume(Store(users, disk), tasks[t], clock, page, w), t)
    /\ UNCHANGED <<clock, requests, call>>

\* The "Processing" / "Analyzing" reply raises: it is awaited outside the try,
\* the handler ends there.
ReplyFails(t) ==
    /\ tasks[t].pc = "processing"
    /\ tasks' = [tasks EXCEPT ![t].pc = "done"]
    /\ UNCHANGED <<users, disk, clock, requests, call>>

\* What the delivery of the file meets: reply_video returns and os.remove
\* deletes the file ("sent"); reply_video returns and os.remove raises, which
\* is swallowed ("remove_error"); open or reply_video raises and the inner
\* except replies with a text ("send_error"); that reply raises too and the
\* outer except takes over ("reply_error").
DeliverOutcomes == {"sent", "remove_error", "send_error", "reply_error"}

\* A delivery whose send error takes the counted unit back
Deliver_refunds(t, o) ==
    /\ tasks[t].pc = "sending"
    /\ tasks' = [tasks EXCEPT ![t].pc = "done", ![t].delivery = o,
                              ![t].artifact = IF o = "sent" THEN "removed" ELSE "exists"]
    /\ users' = IF o \in {"send_error", "reply_error"}
                THEN [users EXCEPT ![Str(tasks[t].uid)].downloads_today = @ - 1,
                                   ![Str(tasks[t].uid)].total_downloads = @ - 1]
                ELSE users
    /\ UNCHANGED <<disk, clock, requests, call>>

\* The await of reply_video ends; os.remove is reached only when it returned.
\* The handler goes on to its finally block, which deletes the "Processing"
\* message and nothing else.
Deliver(t, o) ==
    /\ tasks[t].pc = "sending"
    /\ tasks' = [tasks EXCEPT ![t].pc = "done", ![t].delivery = o,
                              ![t].artifact = IF o = "sent" THEN "removed" ELSE "exists"]
    /\ UNCHANGED <<users, disk, clock, requests, call>>

\* The last await of the handler returns: the task is over
Finish(t) ==
    /\ tasks[t].pc = "done"
    /\ tasks' = [tasks EXCEPT ![t] = IdleTask]
    /\ UNCHANGED <<users, disk, clock, requests, call>>

\* callback_handler, data = "subscribe_free"
SubscribeFree(user_id, w) ==
    /\ LET s1 == subscribe_user(Store(users, disk), user_id, None, clock, w)
       IN users' = s1.users /\ disk' = s1.disk
    /\ UNCHANGED <<clock, tasks, requests, call>>

\* start: get_user, is_subscribed, and reset_daily_limits for a subscriber
start(st, user_id, now, w) ==
    LET s1 == is_subscribed(get_user(st, user_id, now), user_id, now)
    IN IF ~s1.ret THEN s1 ELSE reset_daily_limits(s1, user_id, now, w)

StartCommand(user_id, w) ==
    /\ LET s1 == start(Store(users, disk), user_id, clock, w)
       IN users' = s1.users /\ disk' = s1.disk
    /\ UNCHANGED <<clock, tasks, requests, call>>

\* callback_handler, data = "view_stats"
ViewStats(user_id, w) ==
    /\ LET s1 == reset_daily_limits(get_user(Store(users, disk), user_id, clock),
                                    user_id, clock, w)
       IN users' = s1.users /\ disk' = s1.disk
    /\ UNCHANGED <<clock, tasks, requests, call>>

\* The wall clock advances
Tick ==
    /\ clock < MaxClock
    /\ clock' = clock + 1
    /\ UNCHANGED <<users, disk, tasks, requests, call>>

(***************************************************************************)
(* Initial states: UserManager() loads user_data.json, which is missing,   *)
(* unreadable, or a table an earlier run of the bot wrote.                 *)
(***************************************************************************)
\* a free subscriber one download and one summary short of the free limits
FreeSeed ==
    [NewRecord(0) EXCEPT !.is_subscribed = TRUE, !.subscription_date = 0,
                         !.downloads_today = MAX_FREE_DOWNLOADS - 1,
                         !.summaries_today = MAX_FREE_SUMMARIES - 1,
                         !.total_downloads = MAX_FREE_DOWNLOADS - 1,
                         !.total_summaries = MAX_FREE_SUMMARIES - 1]

\* a premium subscriber one download and one summary short of the premium limits
PremiumSeed ==
    [NewRecord(0) EXCEPT !.is_subscribed = TRUE, !.subscription_date = 0,
                         !.is_premium = TRUE, !.premium_started = 0,
                         !.premium_expires = PremiumDays * TicksPerDay,
                         !.downloads_today = MAX_PREMIUM_DOWNLOADS - 1,
                         !.summaries_today = MAX_PREMIUM_SUMMARIES - 1,
                         !.total_downloads = MAX_PREMIUM_DOWNLOADS - 1,
                         !.total_summaries = MAX_PREMIUM_SUMMARIES - 1]

\* the tables of the saved files: no record, one subscriber of either tier,
\* a free and a premium subscriber
SavedTables ==
    {EmptyTable,
     [k \in {Str(1)} |-> FreeSeed],
     [k \in {Str(1)} |-> PremiumSeed],
     [k \in {Str(1), Str(2)} |-> IF k = Str(1) THEN FreeSeed ELSE PremiumSeed]}

DiskSeeds ==
    {[state |-> "missing", table |-> EmptyTable],
     [state |-> "corrupt", table |-> [k \in {Str(1)} |-> FreeSeed]]}
    \cup {[state |-> "ok", table |-> tb] : tb \in SavedTables}

NoCall ==
    [op |-> "none", uid |-> 0, at |-> 0, known |-> FALSE, pre |-> NewRecord(0),
     changed |-> FALSE, ret |-> FALSE, raised |-> FALSE, arg |-> 0]

Init ==
    /\ disk \in DiskSeeds
    /\ users = load_user_data(disk)
    /\ clock = 0
    /\ tasks = [t \in Tasks |-> IdleTask]
    /\ requests = 0
    /\ call = NoCall

Next ==
    \/ \E t \in Tasks, user_id \in UserIds, url \in Urls, w \in WriteOutcomes :
          HandleUrl(t, user_id, url, w)
    \/ \E t \in Tasks, info \in Infos, w \in WriteOutcomes : RunDownload(t, info, w)
    \/ \E t \in Tasks, page \in Pages, w \in WriteOutcomes : RunSummary(t, page, w)
    \/ \E t \in Tasks : ReplyFails(t)
    \/ \E t \in Tasks, o \in DeliverOutcomes : Deliver(t, o)
    \/ \E t \in Tasks : Finish(t)
    \/ \E user_id \in UserIds, w \in WriteOutcomes : SubscribeFree(user_id, w)
    \/ \E user_id \in UserIds, w \in WriteOutcomes : StartCommand(user_id, w)
    \/ \E user_id \in UserIds, w \in WriteOutcomes : ViewStats(user_id, w)
    \/ Tick

Spec == Init /\ [][Next]_vars


(***************************************************************************)
(* The UserManager alone: a caller invokes its methods in any order.  call *)
(* records the method, its argument, the instant of the call, whether the  *)
(* identity had a record and which, whether the in-memory table changed    *)
(* and the value returned.                                                 *)
(***************************************************************************)
Referrals == {None, 7}

Called(op, user_id, s1) ==
    /\ users' = s1.users
    /\ disk' = s1.disk
    /\ call' = [op |-> op, uid |-> user_id, at |-> clock,
                known |-> Str(user_id) \in DOMAIN users,
                pre |-> IF Str(user_id) \in DOMAIN users THEN users[Str(user_id)]
                        ELSE NewRecord(clock),
                changed |-> s1.users # users,
                ret |-> s1.ret, raised |-> FALSE, arg |-> 0]
    /\ UNCHANGED <<clock, tasks>>

CallGetUser(user_id) ==
    /\ Called("get_user", user_id, get_user(Store(users, disk), user_id, clock))
    /\ UNCHANGED requests

CallSubscribeUser(user_id, referral_code, w) ==
    /\ requests < MaxCalls
    /\ requests' = requests + 1
    /\ Called("subscribe_user", user_id,
              subscribe_user(Store(users, disk), user_id, referral_code, clock, w))

CallUpgradeToPremium(user_id, w) ==
    /\ requests < MaxCalls
    /\ requests' = requests + 1
    /\ Called("upgrade_to_premium", user_id,
              upgrade_to_premium(Store(users, disk), user_id, clock, w))

CallIsSubscribed(user_id) ==
    /\ Called("is_subscribed", user_id, is_subscribed(Store(users, disk), user_id, clock))
    /\ UNCHANGED requests

CallResetDailyLimits(user_id, w) ==
    /\ Called("reset_daily_limits", user_id,
              reset_daily_limits(Store(users, disk), user_id, clock, w))
    /\ UNCHANGED requests

CallCanDownload(user_id, w) ==
    /\ Called("can_download", user_id, can_download(Store(users, disk), user_id, clock, w))
    /\ UNCHANGED requests

CallCanSummarize(user_id, w) ==
    /\ Called("can_summarize", user_id, can_summarize(Store(users, disk), user_id, clock, w))
    /\ UNCHANGED requests

CallGetMaxFileSize(user_id) ==
    /\ Called("get_max_file_size", user_id,
              get_max_file_size(Store(users, disk), user_id, clock))
    /\ UNCHANGED requests

CallIncrementDownload(user_id, w) ==
    /\ requests < MaxCalls
    /\ requests' = requests + 1
    /\ Called("increment_download", user_id,
              increment_download(Store(users, disk), user_id, clock, w))

CallIncrementSummary(user_id, w) ==
    /\ requests < MaxCalls
    /\ requests' = requests + 1
    /\ Called("increment_summary", user_id,
              increment_summary(Store(users, disk), user_id, clock, w))

EngineNext ==
    \/ \E user_id \in UserIds : CallGetUser(user_id)
    \/ \E user_id \in UserIds, r \in Referrals, w \in WriteOutcomes :
          CallSubscribeUser(user_id, r, w)
    \/ \E user_id \in UserIds, w \in WriteOutcomes : CallUpgradeToPremium(user_id, w)
    \/ \E user_id \in UserIds : CallIsSubscribed(user_id)
    \/ \E user_id \in UserIds, w \in WriteOutcomes : CallResetDailyLimits(user_id, w)
    \/ \E user_id \in UserIds, w \in WriteOutcomes : CallCanDownload(user_id, w)
    \/ \E user_id \in UserIds, w \in WriteOutcomes : CallCanSummarize(user_id, w)
    \/ \E user_id \in UserIds : CallGetMaxFileSize(user_id)
    \/ \E user_id \in UserIds, w \in WriteOutcomes : CallIncrementDownload(user_id, w)
    \/ \E user_id \in UserIds, w \in WriteOutcomes : CallIncrementSummary(user_id, w)
    \/ Tick

EngineSpec == Init /\ [][EngineNext]_vars


(***************************************************************************)
(* The record store under failing writes and restarts: save_user_data      *)
(* meets every outcome of open and json.dump, and the process may be       *)
(* started again, which loads user_data.json as it was left.               *)
(***************************************************************************)
\* open(file, "w") and json.dump: the file is written, open raises, or the
\* file is truncated and json.dump does not complete
SaveOutcomes == {"ok", "open_error", "dump_error"}

\* UserManager() of a new process: self.users = self.load_user_data()
Restart ==
    /\ users' = load_user_data(disk)
    /\ call' = [op |-> "load_user_data", uid |-> 0, at |-> clock, known |-> FALSE,
                pre |-> NewRecord(0), changed |-> load_user_data(disk) # users,
                ret |-> FALSE, raised |-> FALSE, arg |-> 0]
    /\ UNCHANGED <<disk, clock, tasks, requests>>

StoreNext ==
    \/ \E user_id \in UserIds : CallGetUser(user_id)
    \/ \E user_id \in UserIds, w \in SaveOutcomes : CallSubscribeUser(user_id, None, w)
    \/ \E user_id \in UserIds, w \in SaveOutcomes : CallResetDailyLimits(user_id, w)
    \/ \E user_id \in UserIds, w \in SaveOutcomes : CallIncrementDownload(user_id, w)
    \/ Restart
    \/ Tick

StoreSpec == Init /\ [][StoreNext]_vars


(***************************************************************************)
(* The UserManager on a user_data.json written by the earlier version of   *)
(* the bot, whose records have no subscription fields.  A method that      *)
(* indexes a key the record lacks raises KeyError to its caller.           *)
(***************************************************************************)
\* the record that get_user of smart_media_bot_backup.py inserts, after use
LegacyRecord ==
    [downloads_today |-> 2, summaries_today |-> 4, last_reset |-> 0,
     is_premium |-> FALSE, premium_expires |-> None,
     total_downloads |-> 2, total_summaries |-> 4]

\* the same record after handle_free_trial of smart_media_bot_backup.py
LegacyTrialRecord ==
    [downloads_today |-> 2, summaries_today |-> 4, last_reset |-> 0,
     is_premium |-> TRUE, premium_expires |-> 7 * TicksPerDay,
     total_downloads |-> 2, total_summaries |-> 4, trial_used |-> TRUE]

LegacyTables ==
    {[k \in {Str(1)} |-> LegacyRecord],
     [k \in {Str(1)} |-> LegacyTrialRecord],
     [k \in {Str(1), Str(2)} |-> IF k = Str(1) THEN LegacyRecord ELSE FreeSeed]}

\* the methods of the quota engine that read the record of the identity
QuotaOps ==
    {"is_subscribed", "reset_daily_limits", "can_download", "can_summarize",
     "get_max_file_size", "increment_download", "increment_summary"}

\* user[key] on a record without that key: whether method op raises KeyError
\* on record rec, following the lookups of the method in their order
KeyError(op, rec) ==
    LET has(key) == key \in DOMAIN rec IN
    CASE op = "is_subscribed" -> ~has("is_subscribed")
      [] op = "reset_daily_limits" -> ~has("last_reset")
      [] op = "can_download" ->
            \/ ~has("is_subscribed")
            \/ /\ rec.is_subscribed
               /\ (~has("last_reset") \/ ~has("is_premium") \/ ~has("downloads_today"))
      [] op = "can_summarize" ->
            \/ ~has("is_subscribed")
            \/ /\ rec.is_subscribed
               /\ (~has("last_reset") \/ ~has("is_premium") \/ ~has("summaries_today"))
      [] op = "get_max_file_size" -> ~has("is_premium")
      [] op = "increment_download" -> ~has("downloads_today") \/ ~has("total_downloads")
      [] op = "increment_summary" -> ~has("summaries_today") \/ ~has("total_summaries")

\* the call of method op
Apply(op, st, user_id, now, w) ==
    CASE op = "is_subscribed" -> is_subscribed(st, user_id, now)
      [] op = "reset_daily_limits" -> reset_daily_limits(st, user_id, now, w)
      [] op = "can_download" -> can_download(st, user_id, now, w)
      [] op = "can_summarize" -> can_summarize(st, user_id, now, w)
      [] op = "get_max_file_size" -> get_max_file_size(st, user_id, now)
      [] op = "increment_download" -> increment_download(st, user_id, now, w)
      [] op = "increment_summary" -> increment_summary(st, user_id, now, w)

\* A caller invokes method op: it returns, or raises KeyError at its first
\* lookup of a missing key, before it has assigned anything.
LegacyCall(op, user_id, w) ==
    LET s0 == get_user(Store(users, disk), user_id, clock)
        rec == s0.users[Str(user_id)]
        counts == op \in {"increment_download", "increment_summary"}
    IN /\ counts => requests < MaxCalls
       /\ requests' = IF counts THEN requests + 1 ELSE requests
       /\ IF KeyError(op, rec)
          THEN /\ users' = s0.users
               /\ call' = [op |-> op, uid |-> user_id, at |-> clock,
                           known |-> Str(user_id) \in DOMAIN users,
                           pre |-> rec, changed |-> s0.users # users,
                           ret |-> FALSE, raised |-> TRUE, arg |-> 0]
               /\ UNCHANGED <<disk, clock, tasks>>
          ELSE Called(op, user_id, Apply(op, Store(users, disk), user_id, clock, w))

LegacyInit ==
    /\ disk \in {[state |-> "ok", table |-> tb] : tb \in LegacyTables}
    /\ users = load_user_data(disk)
    /\ clock = 0
    /\ tasks = [t \in Tasks |-> IdleTask]
    /\ requests = 0
    /\ call = NoCall

LegacyNext ==
    \/ \E op \in QuotaOps, user_id \in UserIds, w \in WriteOutcomes :
          LegacyCall(op, user_id, w)
    \/ Restart
    \/ Tick

LegacySpec == LegacyInit /\ [][LegacyNext]_vars


(***************************************************************************)
(* The router and the pipelines alone: a caller hands a text to handle_url *)
(* or invokes a pipeline on what the remote host answers.  call records    *)
(* the argument and the result.                                            *)
(***************************************************************************)
PipelineCalled(op, user_id, s1, ret, arg) ==
    /\ users' = s1.users
    /\ disk' = s1.disk
    /\ call' = [op |-> op, uid |-> user_id, at |-> clock,
                known |-> Str(user_id) \in DOMAIN users,
                pre |-> IF Str(user_id) \in DOMAIN users THEN users[Str(user_id)]
                        ELSE NewRecord(clock),
                changed |-> s1.users # users,
                ret |-> ret, raised |-> FALSE, arg |-> arg]
    /\ UNCHANGED <<clock, tasks>>

\* handle_url up to its first await; ret is the task it has become
CallHandleUrl(user_id, url, w) ==
    /\ LET r == handle_url(Store(users, disk), user_id, url, clock, w)
       IN PipelineCalled("handle_url", user_id, r.st, r.task, url)
    /\ UNCHANGED requests

CallDownloadYoutubeVideo(user_id, info) ==
    /\ LET s1 == download_youtube_video(Store(users, disk), user_id, clock, info)
       IN PipelineCalled("download_youtube_video", user_id, s1, s1.ret, info)
    /\ UNCHANGED requests

CallSummarizeUrl(user_id, page) ==
    /\ LET s1 == summarize_url(Store(users, disk), user_id, clock, page)
       IN PipelineCalled("summarize_url", user_id, s1, s1.ret, page)
    /\ UNCHANGED requests

PipelineNext ==
    \/ \E user_id \in UserIds, url \in Urls, w \in WriteOutcomes :
          CallHandleUrl(user_id, url, w)
    \/ \E user_id \in UserIds, info \in Infos : CallDownloadYoutubeVideo(user_id, info)
    \/ \E user_id \in UserIds, page \in Pages : CallSummarizeUrl(user_id, page)
    \/ Tick

PipelineSpec == Init /\ [][PipelineNext]_vars


(***************************************************************************)
(* The summarizer alone: a caller hands a text to a strategy or to         *)
(* summarize_text, summarizes the page of an article, or runs the summary  *)
(* handler on it.  call records the argument and the result.               *)
(***************************************************************************)
\* the pages of the articles: fetched, accepted and parsed
Articles ==
    [fetch : {TRUE}, status_code : {200}, parse : {TRUE},
     text : ArticleTexts, faults : {[a |-> "runs", b |-> "runs"],
                                    [a |-> "fails", b |-> "runs"]}]

TextCalled(op, arg, ret) ==
    /\ call' = [op |-> op, uid |-> 0, at |-> clock, known |-> FALSE,
                pre |-> NewRecord(0), changed |-> FALSE,
                ret |-> ret, raised |-> FALSE, arg |-> arg]
    /\ UNCHANGED <<users, disk, clock, tasks, requests>>

CallLocalExtraction(text, max_length) ==
    /\ LET r == Memo(LocalExtractions, <<text, max_length>>)
       IN TextCalled("summarize_with_local_extraction",
                     [text |-> text, max_length |-> max_length], r)
    /\ UNCHANGED requests

CallSimpleMethod(text, max_length) ==
    /\ LET r == Memo(SimpleMethods, <<text, max_length>>)
       IN TextCalled("summarize_with_simple_method",
                     [text |-> text, max_length |-> max_length], r)
    /\ UNCHANGED requests

CallSummarizeText(text, max_length, faults) ==
    /\ LET r == Memo(TextSummaries, <<text, max_length, faults>>)
       IN TextCalled("summarize_text",
                     [text |-> text, max_length |-> max_length, faults |-> faults], r)
    /\ UNCHANGED requests

\* handle_article_summary as a whole on a request that it admits; ret is the
\* task it has become and what the pipeline returned
CallHandleArticleSummary(user_id, page, w) ==
    /\ LET h == handle_article_summary(Store(users, disk), user_id, clock, w)
           s1 == summarize_url(h.st, user_id, clock, page)
           r == article_summary_resume(h.st, h.task, clock, page, w)
       IN /\ h.task.pc = "processing"
          /\ PipelineCalled("handle_article_summary", user_id, r.st,
                            [task |-> r.task, out |-> s1.ret], page)
    /\ UNCHANGED requests

\* the saved file holds a free and a premium subscriber
SummarizerInit ==
    /\ disk = [state |-> "ok",
               table |-> [k \in {Str(1), Str(2)} |->
                             IF k = Str(1) THEN FreeSeed ELSE PremiumSeed]]
    /\ users = load_user_data(disk)
    /\ clock = 0
    /\ tasks = [t \in Tasks |-> IdleTask]
    /\ requests = 0
    /\ call = NoCall

SummarizerNext ==
    \/ \E text \in SampleTexts, max_length \in OutputCaps :
          CallLocalExtraction(text, max_length)
    \/ \E text \in SampleTexts, max_length \in OutputCaps :
          CallSimpleMethod(text, max_length)
    \/ \E text \in ArticleTexts, max_length \in OutputCaps, faults \in Faults :
          CallSummarizeText(text, max_length, faults)
    \/ \E user_id \in UserIds, page \in Pages \cup Articles :
          CallSummarizeUrl(user_id, page)
    \/ \E user_id \in UserIds, page \in Pages, w \in WriteOutcomes :
          CallHandleArticleSummary(user_id, page, w)

SummarizerSpec == SummarizerInit /\ [][SummarizerNext]_vars


(***************************************************************************)
(* The media pipeline alone on metadata with descriptions of several       *)
(* lengths.                                                                *)
(***************************************************************************)
\* no description, and descriptions of 3, 500 and 501 characters
Descriptions == {<<>>, DescriptionOf(3), DescriptionOf(500), DescriptionOf(501)}

DescribedInfos ==
    [extract : BOOLEAN,
     filesize : {None, 0, FREE_MAX_FILE_SIZE, FREE_MAX_FILE_SIZE + 1},
     filesize_approx : {None, 0, PREMIUM_MAX_FILE_SIZE + 1},
     transfer : BOOLEAN,
     description : Descriptions]

MediaNext ==
    \E user_id \in UserIds, info \in DescribedInfos :
        CallDownloadYoutubeVideo(user_id, info)

MediaSpec == SummarizerInit /\ [][MediaNext]_vars

\* a premium subscriber whose 30 days end with the first tick of the clock
ExpirySeed ==
    [NewRecord(0) EXCEPT !.is_subscribed = TRUE,
                         !.subscription_date = TicksPerDay - PremiumDays * TicksPerDay,
                         !.is_premium = TRUE,
                         !.premium_started = TicksPerDay - PremiumDays * TicksPerDay,
                         !.premium_expires = TicksPerDay]

\* The process starts on a file that holds the expiring subscriber
ExpiryInit ==
    /\ disk = [state |-> "ok", table |-> [k \in {Str(1)} |-> ExpirySeed]]
    /\ users = load_user_data(disk)
    /\ clock = 0
    /\ tasks = [t \in Tasks |-> IdleTask]
    /\ requests = 0
    /\ call = NoCall

ExpirySpec == ExpiryInit /\ [][EngineNext]_vars

(***************************************************************************)
(* Properties                                                              *)
(***************************************************************************)
\* the daily limits as the specification states them
DownloadLimit(rec) == IF rec.is_premium THEN 100 ELSE 3
SummaryLimit(rec) == IF rec.is_premium THEN 50 ELSE 5

\* the requests of identity user_id admitted by the gating check and not yet counted
AdmittedDownloads(user_id) ==
    {t \in Tasks : tasks[t].pc = "processing" /\ tasks[t].media /\ tasks[t].uid = user_id}
AdmittedSummaries(user_id) ==
    {t \in Tasks : tasks[t].pc = "processing" /\ ~tasks[t].media /\ tasks[t].uid = user_id}

\* C1: for every identity, the requests admitted by the gating check and still
\* in flight never exceed the quota left: used + admitted <= limit, for downloads
\* and for summaries.
C1_NoDoubleAdmission ==
    \A user_id \in UserIds :
        Str(user_id) \in DOMAIN users =>
            LET rec == users[Str(user_id)] IN
            /\ rec.downloads_today + Cardinality(AdmittedDownloads(user_id))
                   <= DownloadLimit(rec)
            /\ rec.summaries_today + Cardinality(AdmittedSummaries(user_id))
                   <= SummaryLimit(rec)

\* C2: a request that invoked a pipeline called the matching gating check
\* first and it returned true; a request that performed an increment had
\* invoked the matching pipeline and it returned success.
C2_CheckPipelineIncrementOrder ==
    \A t \in Tasks :
        LET r == tasks[t] IN
        /\ r.pipeline = "download_youtube_video" => r.check = "can_download" /\ r.admitted
        /\ r.pipeline = "summarize_url" => r.check = "can_summarize" /\ r.admitted
        /\ r.counted = "increment_download" =>
               r.pipeline = "download_youtube_video" /\ r.result = "success"
        /\ r.counted = "increment_summary" =>
               r.pipeline = "summarize_url" /\ r.result = "success"

\* a download request and a summary request both went through check, pipeline
\* and increment
C2_Witness ==
    \E t1, t2 \in Tasks :
        /\ tasks[t1].counted = "increment_download"
        /\ tasks[t2].counted = "increment_summary"

\* the record the last call found: the stored one, or the zeroed one a first
\* lookup inserts
Found ==
    IF call.known THEN call.pre
    ELSE [is_subscribed |-> FALSE, subscription_date |-> None,
          downloads_today |-> 0, summaries_today |-> 0,
          last_reset |-> Date(call.at), is_premium |-> FALSE,
          premium_expires |-> None, premium_started |-> None,
          total_downloads |-> 0, total_summaries |-> 0,
          referral_code |-> None, referred_by |-> None]

\* the record of the identity of the last call, after the call
Left == users[Str(call.uid)]

\* C3: can_download returns false for an unsubscribed (or unseen) identity;
\* otherwise it applies the daily reset and returns true iff the download
\* counter after the reset is below 3 (free) or 100 (premium); summaries_today
\* plays no part.
C3_CanDownload ==
    call.op = "can_download" =>
        IF ~call.known \/ ~call.pre.is_subscribed
        THEN call.ret = FALSE
        ELSE LET counter == IF call.pre.last_reset # Date(call.at) THEN 0
                            ELSE call.pre.downloads_today
             IN /\ Left.last_reset = Date(call.at)
                /\ Left.downloads_today = counter
                /\ call.ret = (counter < DownloadLimit(call.pre))

\* can_download was called for a premium subscriber at the premium limit and
\* returned false
C3_Witness ==
    /\ call.op = "can_download"
    /\ call.ret = FALSE
    /\ call.known
    /\ call.pre.is_subscribed
    /\ call.pre.is_premium
    /\ call.pre.last_reset = Date(call.at)
    /\ call.pre.downloads_today = 100

\* C4: can_summarize returns false for an unsubscribed (or unseen) identity;
\* otherwise it applies the daily reset and returns true iff the summary counter
\* after the reset is below 5 (free) or 50 (premium); downloads_today plays no
\* part.
C4_CanSummarize ==
    call.op = "can_summarize" =>
        IF ~call.known \/ ~call.pre.is_subscribed
        THEN call.ret = FALSE
        ELSE LET counter == IF call.pre.last_reset # Date(call.at) THEN 0
                            ELSE call.pre.summaries_today
             IN /\ Left.last_reset = Date(call.at)
                /\ Left.summaries_today = counter
                /\ call.ret = (counter < SummaryLimit(call.pre))

\* can_summarize was called for a free subscriber at the free limit and
\* returned false
C4_Witness ==
    /\ call.op = "can_summarize"
    /\ call.ret = FALSE
    /\ call.known
    /\ call.pre.is_subscribed
    /\ ~call.pre.is_premium
    /\ call.pre.last_reset = Date(call.at)
    /\ call.pre.summaries_today = 5

\* C5: downloads_today never exceeds the download limit of the record's tier
\* and summaries_today never exceeds its summary limit.
C5_CountersWithinLimits ==
    \A k \in DOMAIN users :
        /\ users[k].downloads_today <= DownloadLimit(users[k])
        /\ users[k].summaries_today <= SummaryLimit(users[k])

\* C6: reset_daily_limits on a date other than last_reset zeroes both daily
\* counters and sets last_reset to that date; on the date of last_reset it
\* changes nothing, so a second run on the same date changes nothing; the
\* totals and the subscription fields are never changed.
C6_ResetDailyLimits ==
    (call.op = "reset_daily_limits" /\ call.known) =>
        LET pre == call.pre
            post == Left
            again == reset_daily_limits(Store(users, disk), call.uid, call.at, "ok")
        IN /\ pre.last_reset # Date(call.at) =>
                  /\ post.downloads_today = 0
                  /\ post.summaries_today = 0
                  /\ post.last_reset = Date(call.at)
           /\ pre.last_reset = Date(call.at) => post = pre /\ ~call.changed
           /\ again.users = users
           /\ post.total_downloads = pre.total_downloads
           /\ post.total_summaries = pre.total_summaries
           /\ post.is_subscribed = pre.is_subscribed
           /\ post.subscription_date = pre.subscription_date
           /\ post.is_premium = pre.is_premium
           /\ post.premium_expires = pre.premium_expires
           /\ post.premium_started = pre.premium_started

\* reset_daily_limits ran on a later date on a record with used counters
C6_Witness ==
    /\ call.op = "reset_daily_limits"
    /\ call.known
    /\ call.pre.last_reset # Date(call.at)
    /\ call.pre.downloads_today > 0
    /\ call.pre.summaries_today > 0
    /\ call.pre.total_downloads > 0

\* C7: increment_download adds exactly 1 to downloads_today and to
\* total_downloads and changes no other field of the record; increment_summary
\* does the same with summaries_today and total_summaries.
C7_IncrementByOne ==
    /\ call.op = "increment_download" =>
           Left = [Found EXCEPT !.downloads_today = @ + 1, !.total_downloads = @ + 1]
    /\ call.op = "increment_summary" =>
           Left = [Found EXCEPT !.summaries_today = @ + 1, !.total_summaries = @ + 1]

\* increment_download was called on a stored record whose summary counters
\* are in use and whose daily download counter differs from its total
C7_Witness ==
    /\ call.op = "increment_download"
    /\ call.known
    /\ call.pre.total_downloads > call.pre.downloads_today
    /\ call.pre.summaries_today > 0
    /\ Left.downloads_today > 0

\* C8: no step removes a record or decreases its total_downloads or
\* total_summaries.
C8_TotalsMonotone ==
    [][\A k \in DOMAIN users :
          /\ k \in DOMAIN users'
          /\ users'[k].total_downloads >= users[k].total_downloads
          /\ users'[k].total_summaries >= users[k].total_summaries]_vars

\* a record with used totals went through upgrade and a daily reset
C8_Witness ==
    \E k \in DOMAIN users :
        /\ users[k].total_downloads > 0
        /\ users[k].premium_started > 0
        /\ users[k].last_reset > 0
        /\ users[k].subscription_date = 0

\* identity user_id is subscribed, its counters are of today and its download
\* counter equals the limit of its tier
AtDownloadLimit(user_id) ==
    /\ Str(user_id) \in DOMAIN users
    /\ users[Str(user_id)].is_subscribed
    /\ users[Str(user_id)].last_reset = Date(clock)
    /\ users[Str(user_id)].downloads_today = DownloadLimit(users[Str(user_id)])

\* C9: a media URL of a subscriber whose download counter of today equals the
\* tier limit: the gating check is called and returns false, the request ends
\* without invoking the media pipeline, and the table is unchanged.
C9_RefusedAtLimit ==
    [][\A t \in Tasks :
          (/\ tasks[t].pc = "idle"
           /\ tasks'[t].pc # "idle"
           /\ tasks'[t].media
           /\ AtDownloadLimit(tasks'[t].uid))
          => /\ tasks'[t].pc = "done"
             /\ tasks'[t].check = "can_download"
             /\ ~tasks'[t].admitted
             /\ tasks'[t].pipeline = "none"
             /\ tasks'[t].counted = "none"
             /\ users' = users]_vars

\* a media request of a free subscriber at 3 downloads of today was refused
C9_Witness ==
    \E t \in Tasks :
        /\ tasks[t].pc = "done"
        /\ tasks[t].check = "can_download"
        /\ ~tasks[t].admitted
        /\ AtDownloadLimit(tasks[t].uid)
        /\ ~users[Str(tasks[t].uid)].is_premium

\* C10: get_user of an unseen identity inserts a record with the four counters
\* zero, not subscribed and not premium; get_user of a known identity leaves
\* its record as it was and the table unchanged; both return the record.
C10_GetUser ==
    call.op = "get_user" =>
        IF ~call.known
        THEN /\ call.changed
             /\ Left.downloads_today = 0
             /\ Left.summaries_today = 0
             /\ Left.total_downloads = 0
             /\ Left.total_summaries = 0
             /\ Left.is_subscribed = FALSE
             /\ Left.is_premium = FALSE
             /\ call.ret = Left
        ELSE /\ ~call.changed
             /\ Left = call.pre
             /\ call.ret = call.pre

\* get_user inserted the record of an unseen identity next to a stored record
C10_Witness ==
    /\ call.op = "get_user"
    /\ ~call.known
    /\ Cardinality(DOMAIN users) > 1

\* C11: when get_user inserts the record of an unseen identity, the saved
\* table holds that record when the call returns.
C11_InsertIsSaved ==
    (call.op = "get_user" /\ ~call.known) =>
        /\ disk.state = "ok"
        /\ Str(call.uid) \in DOMAIN disk.table
        /\ disk.table[Str(call.uid)] = Left

\* C12: after every operation that changed the in-memory table (a record
\* created, subscribe, upgrade, an effective reset, an increment), the saved
\* table equals the whole in-memory table.
C12_SavedEqualsMemory ==
    call.changed => (disk.state = "ok" /\ disk.table = users)

\* C13: save is atomic: after every step, a save that failed midway included,
\* loading user_data.json yields the table it held before the step or the
\* whole in-memory table that was being saved.
C13_SaveIsAtomic ==
    [][load_user_data(disk') \in {load_user_data(disk), users'}]_vars

\* C14: a process that starts on a missing, unreadable or corrupt
\* user_data.json holds the empty table: every identity is unseen.
C14_LoadOfBadBlobIsEmpty ==
    (call.op \in {"none", "load_user_data"} /\ disk.state # "ok") =>
        /\ users = EmptyTable
        /\ \A user_id \in UserIds : Str(user_id) \notin DOMAIN users

\* a process restarted on a file that a failed save left corrupt, and lost
\* the records it had in memory
C14_Witness ==
    /\ call.op = "load_user_data"
    /\ disk.state = "corrupt"
    /\ call.changed

\* C15: records written without the newer fields, or with extra ones, are
\* kept by the load, have their missing fields backfilled, and every quota
\* engine operation on them returns without raising.
C15_LegacyRecordsUsable ==
    call.op # "none" =>
        /\ ~call.raised
        /\ DOMAIN disk.table \subseteq DOMAIN users
        /\ \A k \in DOMAIN users : DOMAIN NewRecord(0) \subseteq DOMAIN users[k]

\* the size that the pipeline compares: filesize, or filesize_approx when
\* filesize is absent
ResolvedSize(info) == IF info.filesize # 0 THEN info.filesize ELSE info.filesize_approx

\* the file size limit of the tier as the specification states it, in bytes
TierLimit(rec) == IF rec.is_premium THEN 500 * 1024 * 1024 ELSE 50 * 1024 * 1024

\* C16: when the size of the resolved metadata exceeds the limit of the
\* user's tier, the media pipeline returns the "too large" failure and the
\* transfer has not run; a transfer runs only after the size passed the check.
C16_SizeCheckBeforeTransfer ==
    (call.op = "download_youtube_video" /\ call.arg.extract) =>
        /\ ResolvedSize(call.arg) > TierLimit(call.pre) =>
              /\ ~call.ret.success
              /\ call.ret.error = "File too large"
              /\ ~call.ret.transferred
        /\ call.ret.transferred => ResolvedSize(call.arg) <= TierLimit(call.pre)

\* a premium user asked for a file above 500 MiB whose transfer would have
\* succeeded
C16_Witness ==
    /\ call.op = "download_youtube_video"
    /\ call.arg.extract
    /\ call.arg.transfer
    /\ call.pre.is_premium
    /\ ResolvedSize(call.arg) > TierLimit(call.pre)
    /\ ~call.ret.success

\* an error was raised inside the pipeline call that call records
PipelineError ==
    \/ /\ call.op = "download_youtube_video"
       /\ \/ ~call.arg.extract
          \/ ResolvedSize(call.arg) <= TierLimit(call.pre) /\ ~call.arg.transfer
    \/ /\ call.op = "summarize_url"
       /\ \/ ~call.arg.fetch
          \/ call.arg.status_code = 200 /\ ~call.arg.parse
          \/ /\ call.arg.status_code = 200
             /\ Len(call.arg.text) >= 100
             /\ call.arg.faults.a # "runs"
             /\ call.arg.faults.b # "runs"

\* C17: a pipeline call never ends with an exception, and when an error was
\* raised inside it (metadata resolution, transfer, fetch, parsing, the
\* strategies) it returns success = false with an error message.
C17_ErrorsAreReturned ==
    call.op \in {"download_youtube_video", "summarize_url"} =>
        /\ ~call.ret.raised
        /\ PipelineError => (~call.ret.success /\ call.ret.error # "")

\* the page was fetched and the parser raised
C17_Witness ==
    /\ call.op = "summarize_url"
    /\ call.arg.fetch
    /\ call.arg.status_code = 200
    /\ ~call.arg.parse
    /\ ~call.ret.success

\* the texts of Urls in which a media domain marker occurs, letter case aside
MediaTexts ==
    { <<"h", "t", "t", "p", "s", ":", "/", "/", "y", "o", "u", "t", "u", ".", "b", "e", "/", "a", "b", "c", "1", "2", "3">>,
      <<"h", "t", "t", "p", "s", ":", "/", "/", "Y", "o", "u", "T", "u", "b", "e", ".", "c", "o", "m", "/", "w">>,
      <<"h", "t", "t", "p", "s", ":", "/", "/", "e", "x", "a", "m", "p", "l", "e", ".", "c", "o", "m", "/", "?", "u", "=", "y", "o", "u", "t", "u", ".", "b", "e">> }

\* C20: the router sends every text of a subscriber to exactly one of the
\* two handlers: to the download handler when a media domain marker occurs
\* in it, letter case aside, and to the summary handler otherwise.
C20_RouterIsTotal ==
    (call.op = "handle_url" /\ call.known /\ call.pre.is_subscribed) =>
        /\ call.ret.check \in {"can_download", "can_summarize"}
        /\ call.ret.check = "can_download" <=> call.arg \in MediaTexts
        /\ call.ret.check = "can_summarize" <=> call.arg \notin MediaTexts
        /\ call.ret.media <=> call.arg \in MediaTexts

\* a text with the marker in capitals went to the download handler
C20_Witness ==
    /\ call.op = "handle_url"
    /\ call.known
    /\ call.pre.is_subscribed
    /\ call.ret.check = "can_download"
    /\ is_youtube(call.arg)
    /\ ~is_youtube_case_sensitive(call.arg)

\* C18: a request invokes its pipeline at most once and its increment at
\* most once; a request whose pipeline returned a failure is over, with one
\* pipeline attempt and no increment.
C18_AtMostOnce ==
    \A t \in Tasks :
        /\ tasks[t].attempts <= 1
        /\ tasks[t].increments <= 1
        /\ tasks[t].increments = 1 => tasks[t].result = "success"
        /\ tasks[t].result = "failure" =>
              /\ tasks[t].pc = "done"
              /\ tasks[t].attempts = 1
              /\ tasks[t].increments = 0
              /\ tasks[t].counted = "none"

\* a summary request whose pipeline returned a failure has ended
C18_Witness ==
    \E t \in Tasks :
        /\ tasks[t].pipeline = "summarize_url"
        /\ tasks[t].result = "failure"
        /\ tasks[t].pc = "done"

\* C19: once the download handler has finished a request whose media
\* pipeline returned success, the downloaded file no longer exists.
C19_ArtifactRemoved ==
    \A t \in Tasks :
        (/\ tasks[t].pc = "done"
         /\ tasks[t].pipeline = "download_youtube_video"
         /\ tasks[t].result = "success")
        => tasks[t].artifact = "removed"

\* C27: every subscribe_user sets is_subscribed, stamps subscription_date
\* with the instant of the call, a repeated call included, saves the table,
\* and leaves the counters, last_reset, the totals and is_premium as they were.
C27_Subscribe ==
    call.op = "subscribe_user" =>
        /\ Left.is_subscribed
        /\ Left.subscription_date = call.at
        /\ Left.downloads_today = call.pre.downloads_today
        /\ Left.summaries_today = call.pre.summaries_today
        /\ Left.last_reset = call.pre.last_reset
        /\ Left.total_downloads = call.pre.total_downloads
        /\ Left.total_summaries = call.pre.total_summaries
        /\ Left.is_premium = call.pre.is_premium
        /\ disk.state = "ok"
        /\ disk.table = users

\* a subscriber with counters in use subscribed again at a later instant
C27_Witness ==
    /\ call.op = "subscribe_user"
    /\ call.known
    /\ call.pre.is_subscribed
    /\ call.pre.subscription_date # call.at
    /\ call.pre.downloads_today > 0

\* the index of the first character of the host in a URL: after "://" when
\* the text has a scheme, else 1
HostStart(url) ==
    LET at == {i \in 1..(Len(url) - 2) : SubSeq(url, i, i + 2) = <<":", "/", "/">>}
    IN IF at = {} THEN 1 ELSE (CHOOSE i \in at : \A j \in at : i <= j) + 3

\* the host of a URL: from HostStart up to the next "/" or "?"
Host(url) ==
    LET from == HostStart(url)
        ends == {i \in from..Len(url) : url[i] \in {"/", "?"}}
        to == IF ends = {} THEN Len(url) ELSE (CHOOSE i \in ends : \A j \in ends : i <= j) - 1
    IN SubSeq(url, from, to)

\* a media domain marker occurs in the host of the URL, letter case aside
MediaHost(url) == \E d \in youtube_domains : Contains(Lower(Host(url)), d)

\* C30: the router classifies by the host only: a text of a subscriber goes
\* to the download handler exactly when a marker occurs in its host, so a URL
\* with a marker only in its path or query goes to the summary handler.
C30_RouterReadsHostOnly ==
    (call.op = "handle_url" /\ call.known /\ call.pre.is_subscribed) =>
        (call.ret.check = "can_download" <=> MediaHost(call.arg))

\* what the strategies return on the text of the call that call records
ResultA == Memo(LocalExtractions, <<call.arg.text, call.arg.max_length>>)
ResultB == Memo(SimpleMethods, <<call.arg.text, call.arg.max_length>>)

\* C21: summarize_text calls strategy A first; when A reports success it
\* returns A's summary and B is not called; when A does not and B reports
\* success it returns B's summary; the summary is never anything else.
C21_FirstSuccessInOrder ==
    call.op = "summarize_text" =>
        /\ call.ret.tried \in {<<"summarize_with_local_extraction">>,
                               <<"summarize_with_local_extraction",
                                 "summarize_with_simple_method">>}
        /\ call.arg.faults.a = "runs" =>
              /\ call.ret.success
              /\ call.ret.summary = ResultA.summary
              /\ call.ret.tried = <<"summarize_with_local_extraction">>
        /\ (call.arg.faults.a # "runs" /\ call.arg.faults.b = "runs") =>
              /\ call.ret.success
              /\ call.ret.summary = ResultB.summary
              /\ Len(call.ret.tried) = 2

\* both strategies would succeed on a text where their summaries differ
C21_Witness ==
    /\ call.op = "summarize_text"
    /\ call.arg.faults = [a |-> "runs", b |-> "runs"]
    /\ call.arg.text = LongText
    /\ ResultA.summary # ResultB.summary
    /\ call.ret.summary = ResultA.summary

\* C22: when strategy A and strategy B both fail, by raising or by reporting
\* success = false, summarize_text returns a failure with its error message.
C22_BothFail ==
    (/\ call.op = "summarize_text"
     /\ call.arg.faults.a # "runs"
     /\ call.arg.faults.b # "runs") =>
        /\ ~call.ret.success
        /\ call.ret.error = "Summarization services temporarily unavailable. Please try again later."
        /\ call.ret.summary = <<>>

\* A raised and B reported success = false
C22_Witness ==
    /\ call.op = "summarize_text"
    /\ call.arg.faults = [a |-> "raises", b |-> "fails"]
    /\ ~call.ret.success

\* the number of sentences of a text: one more than the occurrences of the
\* period followed by a blank
SentenceCount(text) ==
    Cardinality({i \in 1..(Len(text) - 1) : text[i] = "." /\ text[i + 1] = " "}) + 1

\* C23: on a text of at most 3 sentences strategy A returns success with the
\* text itself as summary, and so does summarize_text when A runs.
C23_ShortTextVerbatim ==
    (/\ call.op \in {"summarize_with_local_extraction", "summarize_text"}
     /\ SentenceCount(call.arg.text) <= 3
     /\ call.op = "summarize_text" => call.arg.faults.a = "runs") =>
        /\ call.ret.success
        /\ call.ret.summary = call.arg.text

\* strategy A was called on three sentences
C23_Witness ==
    /\ call.op = "summarize_with_local_extraction"
    /\ call.arg.text = ThreeText
    /\ SentenceCount(call.arg.text) = 3
    /\ call.ret.summary = ThreeText

\* C24 as claimed: on a text of more than 3 sentences the summary of
\* strategy A has at most max_length + 3 characters.
C24_CapPlusEllipsis ==
    (/\ call.op = "summarize_with_local_extraction"
     /\ SentenceCount(call.arg.text) > 3) =>
        Len(call.ret.summary) <= call.arg.max_length + Len(Ellipsis)

\* the output cap of the tier of the user that call records
OutputCap == IF Left.is_premium THEN 500 ELSE 300

\* summarize_url got a 200 response and extracted the text of the page
Extracted ==
    /\ call.op = "summarize_url"
    /\ call.arg.fetch
    /\ call.arg.status_code = 200
    /\ call.arg.parse

C26_RefusedStatusIsTerminal ==
    /\ (/\ call.op = "summarize_url"
        /\ call.arg.fetch
        /\ call.arg.status_code # 200) =>
           /\ ~call.ret.success
           /\ call.ret.error = "Could not fetch URL"
           /\ ~call.ret.extracted
           /\ call.ret.tried = <<>>
    /\ (/\ call.op = "handle_article_summary"
        /\ call.arg.fetch
        /\ call.arg.status_code # 200) =>
           /\ ~call.ret.out.success
           /\ ~call.ret.out.extracted
           /\ call.ret.out.tried = <<>>
           /\ call.ret.task.result = "failure"
           /\ call.ret.task.increments = 0
           /\ Left.summaries_today = call.pre.summaries_today
           /\ Left.total_summaries = call.pre.total_summaries

\* the summary handler met a 404 response
C26_Witness ==
    /\ call.op = "handle_article_summary"
    /\ call.arg.fetch
    /\ call.arg.status_code = 404
    /\ call.ret.task.pc = "done"
    /\ call.ret.task.attempts = 1
    /\ call.ret.task.increments = 0

\* The sentences of the text of the call that call records, those that are
\* scored (at least 10 characters once stripped), and the score of sentence i
\* in hundredths: its word count, times 1.5 for the first sentence, times 1.2
\* for a sentence whose index (from 0) is below the integer quotient of the
\* sentence count by 3.
Sents == SplitSentences(call.arg.text)
Scorable == {i \in 1..Len(Sents) : Len(Strip(Sents[i])) >= 10}
Score(i) ==
    Len(SplitWords(Strip(Sents[i])))
        * (IF i - 1 = 0 THEN 15 ELSE 10)
        * (IF i - 1 < Len(Sents) \div 3 THEN 12 ELSE 10)

\* top is a choice of the (up to 3) highest-scoring sentences in descending
\* score order
IsTop(top) ==
    /\ \A j, k \in DOMAIN top : j < k => top[j] # top[k] /\ Score(top[j]) >= Score(top[k])
    /\ \A i \in Scorable : \A k \in DOMAIN top :
          (\A j \in DOMAIN top : top[j] # i) => Score(i) <= Score(top[k])

WordCount(text) ==
    Cardinality({i \in 1..Len(text) :
                    text[i] # " " /\ (i = 1 \/ text[i - 1] = " ")})

\* C29: strategy B reports success; it returns a text of at most 50 words as
\* it is, and otherwise the first 50 words of the text, one blank between
\* them, followed by "...".
C29_HeadTruncation ==
    call.op = "summarize_with_simple_method" =>
        /\ call.ret.success
        /\ WordCount(call.arg.text) <= 50 => call.ret.summary = call.arg.text
        /\ WordCount(call.arg.text) > 50 =>
              LET n == Len(call.ret.summary)
                  body == SubSeq(call.ret.summary, 1, n - 3)
              IN /\ n > 3
                 /\ SubSeq(call.ret.summary, n - 2, n) = Ellipsis
                 /\ SplitWords(body) = Take(SplitWords(call.arg.text), 50)
                 /\ WordCount(body) = 50
                 /\ body[1] # " " /\ body[Len(body)] # " "
                 /\ \A i \in 1..(Len(body) - 1) : ~(body[i] = " " /\ body[i + 1] = " ")

\* 51 words with two blanks between them
C29_Witness ==
    /\ call.op = "summarize_with_simple_method"
    /\ call.arg.text = SpacedText
    /\ WordCount(call.arg.text) = 51
    /\ call.ret.summary = Sentence("g", 1, 50) \o Ellipsis

\* C31: the description of a success result of the media pipeline has at
\* most 500 characters.
C31_DescriptionAtMost500 ==
    (call.op = "download_youtube_video" /\ call.ret.success) =>
        Len(call.ret.description) <= 500

\* the record of the identity that task t serves
Served(t) == users[Str(tasks[t].uid)]

\* C32: a URL message of an identity that is not subscribed ends at the
\* subscription gate: the handler calls no gating check and no pipeline, it
\* performs no increment, and the counters of the record stay as they were
\* created.  So a task that invoked a pipeline serves a subscribed identity.
C32_UnsubscribedReachNoPipeline ==
    \A t \in Tasks :
        (tasks[t].uid # 0 /\ ~Served(t).is_subscribed) =>
            /\ tasks[t].pc = "done"
            /\ tasks[t].check = "none"
            /\ ~tasks[t].admitted
            /\ tasks[t].pipeline = "none"
            /\ tasks[t].attempts = 0
            /\ tasks[t].increments = 0
            /\ Served(t).downloads_today = 0
            /\ Served(t).summaries_today = 0
            /\ Served(t).total_downloads = 0
            /\ Served(t).total_summaries = 0

\* a URL message of an identity without subscription was handled, while
\* another task has invoked a pipeline for a subscriber
C32_Witness ==
    \E t, o \in Tasks :
        /\ tasks[t].uid # 0
        /\ ~Served(t).is_subscribed
        /\ tasks[t].pc = "done"
        /\ tasks[o].attempts = 1
        /\ Served(o).is_subscribed

\* C33: a call of a UserManager method for one identity leaves the record of
\* every other identity in memory as it was.
C33_OtherRecordsUntouched ==
    [][\A k \in DOMAIN users :
          k # Str(call'.uid) => (k \in DOMAIN users' /\ users'[k] = users[k])]_vars

\* a call changed the record of its identity while another identity has a record
C33_Witness ==
    /\ call.op \in {"subscribe_user", "upgrade_to_premium", "reset_daily_limits",
                    "increment_download", "increment_summary"}
    /\ call.changed
    /\ \E k \in DOMAIN users : k # Str(call.uid)

\* C34: in every record the four counters are non-negative and each total is
\* at least the counter of the day.
C34_CountersOrdered ==
    \A k \in DOMAIN users :
        /\ users[k].downloads_today >= 0
        /\ users[k].summaries_today >= 0
        /\ users[k].total_downloads >= 0
        /\ users[k].total_summaries >= 0
        /\ users[k].total_downloads >= users[k].downloads_today
        /\ users[k].total_summaries >= users[k].summaries_today

\* a download was counted after a daily reset: the total is ahead of the day
C34_Witness ==
    /\ call.op = "increment_download"
    /\ Left.downloads_today >= 1
    /\ Left.total_downloads > Left.downloads_today

\* The task t is about to deliver the file of a download that succeeded
Delivering(t) ==
    tasks[t].pc = "sending" /\ tasks[t].pipeline = "download_youtube_video"

\* C35: the download handler consumes the unit before it attempts delivery:
\* the step in which the pipeline reports success adds 1 to downloads_today
\* and to total_downloads, and the step in which delivery ends, a send error
\* included, leaves both counters as they were.
C35_CountedBeforeDelivery ==
    [][\A t \in 1..MaxTasks :
          /\ (~Delivering(t) /\ Delivering(t)')
                => /\ Served(t)'.downloads_today = Served(t).downloads_today + 1
                   /\ Served(t)'.total_downloads = Served(t).total_downloads + 1
                   /\ tasks'[t].counted = "increment_download"
                   /\ tasks'[t].delivery = "none"
          /\ (Delivering(t) /\ ~Delivering(t)')
                => /\ tasks'[t].delivery \in DeliverOutcomes
                   /\ Served(t)'.downloads_today = Served(t).downloads_today
                   /\ Served(t)'.total_downloads = Served(t).total_downloads]_vars

\* a send error ended the delivery of a counted download: the user holds no
\* file and the unit is spent
C35_Witness ==
    \E t \in 1..MaxTasks :
        /\ tasks[t].pc = "done" /\ tasks[t].delivery = "send_error"
        /\ tasks[t].counted = "increment_download"
        /\ Served(t).downloads_today >= 1 /\ Served(t).total_downloads >= 1

\* C36: a failed write of user_data.json is swallowed and the mutation stays
\* in memory: when increment_download returns and the file does not hold the
\* in-memory table, the call raised nothing, the record in memory carries the
\* incremented counters, and a load of the file yields the table it yielded
\* before the call.
C36_FailedWriteKeepsOlderTable ==
    [][(/\ call'.op = "increment_download" /\ call' # call
        /\ disk' # [state |-> "ok", table |-> users'])
          => /\ ~call'.raised
             /\ users'[Str(call'.uid)].downloads_today = call'.pre.downloads_today + 1
             /\ users'[Str(call'.uid)].total_downloads = call'.pre.total_downloads + 1
             /\ load_user_data(disk') = load_user_data(disk)]_vars

\* C37: strategy A reports success on every text, so summarize_text, when A
\* runs on the text, returns A's result and never reaches strategy B.
C37_StrategyAAlwaysSucceeds ==
    /\ call.op = "summarize_with_local_extraction" => call.ret.success
    /\ call.op = "summarize_text" =>
          /\ ResultA.success
          /\ call.arg.faults.a = "runs" =>
                /\ call.ret.success
                /\ call.ret.summary = ResultA.summary
                /\ call.ret.tried = <<"summarize_with_local_extraction">>

\* strategy A was called on a text of more than three sentences in which it
\* found nothing to score, and reported success with the summary "."
C37_Witness ==
    /\ call.op = "summarize_with_local_extraction"
    /\ SentenceCount(call.arg.text) > 3
    /\ ScoredFrom(SplitSentences(call.arg.text), 1) = <<>>
    /\ call.ret.success /\ call.ret.summary = <<".">>

\* the record of k is premium and its premium_expires has passed at time now
Expired(r, now) == r.is_premium /\ r.premium_expires # None /\ r.premium_expires <= now

\* C38: the tier flags only rise: no step removes a record or sets its
\* is_subscribed or its is_premium back to false, and a size lookup or a
\* download check on a premium record whose premium_expires has passed
\* answers with the premium limits.
C38_TierFlagsMonotone ==
    [][/\ \A k \in DOMAIN users :
             /\ k \in DOMAIN users'
             /\ users[k].is_subscribed => users'[k].is_subscribed
             /\ users[k].is_premium => users'[k].is_premium
       /\ (call'.op = "get_max_file_size" /\ Expired(call'.pre, call'.at))
             => call'.ret = PREMIUM_MAX_FILE_SIZE
       /\ (call'.op = "can_download" /\ Expired(call'.pre, call'.at)
           /\ call'.pre.is_subscribed)
             => call'.ret = (users'[Str(call'.uid)].downloads_today
                                < MAX_PREMIUM_DOWNLOADS)]_vars

\* after the expiry date and a daily reset the record is still premium and
\* the size lookup returned the premium limit
C38_Witness ==
    /\ call.op = "get_max_file_size"
    /\ Expired(Left, clock)
    /\ Left.last_reset = Date(clock) /\ Left.last_reset > 0
    /\ call.ret = PREMIUM_MAX_FILE_SIZE

\* C39: when the metadata carries no size (filesize and filesize_approx are
\* None, which is also what an absent filesize reads as, or 0) and the
\* metadata was resolved, download_youtube_video does not answer "File too
\* large" and goes on to the transfer, for a free and for a premium record.
C39_UnsizedIsTransferred ==
    (/\ call.op = "download_youtube_video"
     /\ call.arg.extract
     /\ call.arg.filesize \in {None, 0} /\ call.arg.filesize_approx \in {None, 0})
        => /\ call.ret.error # "File too large"
           /\ call.ret.transferred
           /\ call.ret.success = call.arg.transfer

\* a free subscriber's download of a file without a size went through
C39_Witness ==
    /\ call.op = "download_youtube_video"
    /\ ~Left.is_premium
    /\ call.arg.filesize = None /\ call.arg.filesize_approx = 0
    /\ call.ret.success /\ call.ret.transferred

\* C40: a unit is counted in the current daily window: in every step in which
\* a handler applies increment_download or increment_summary, the record's
\* last_reset is the calendar date of that moment, also when the date
\* advanced after the handler's gating check.
C40_CountedInCurrentWindow ==
    [][\A t \in Tasks :
          tasks'[t].increments > tasks[t].increments
             => Served(t)'.last_reset = Date(clock')]_vars

====
